---- MODULE Spec2Model ----
(***************************************************************************)
(* Verification model of the document question-answering backend:         *)
(* the background task queue, the sliding-window rate limiter, document   *)
(* versioning in the store client, retrieval filtering and context        *)
(* assembly, and the query orchestration with its answering-service       *)
(* retry loop.                                                             *)
(*                                                                         *)
(* Each component has its own specification (SpecTQ, SpecRL, ...); the    *)
(* variables of the components a specification does not exercise keep     *)
(* their initial values.                                                   *)
(***************************************************************************)
EXTENDS Integers, Sequences, FiniteSets, TLC

(***************************************************************************)
(* Bounds of the model                                                     *)
(***************************************************************************)
MaxTasks == 3
TicksPerSec == 2     \* resolution of the clock: ticks in one second
MaxAdvances == 2     \* clock advances in one behaviour of SpecRL
MaxBursts == 3       \* bursts of is_rate_limited calls in one behaviour
MaxDocCalls == 3     \* create_document / soft_delete_document calls
MaxClients == 2      \* callers of the store client running at once
MaxResults == 10     \* chunks returned by one similarity search
MaxChunkIndex == 2   \* highest chunk_index of a stored document
MaxInFlight == 1     \* query requests whose response is not yet delivered
MaxQueries == 2      \* query requests in one behaviour of SpecQuery
BurstQueries == 11   \* query requests in one behaviour of SpecGroq
MaxMemoryOps == 7    \* memory updates and clears in one behaviour of SpecMemory
MaxIngests == 2      \* ingestions in one behaviour of SpecIngest
MaxCallers == 2      \* callers of get_embeddings_batch running at once
MaxEmbedCalls == 2   \* get_embeddings_batch calls in one behaviour
MaxBatch == 2        \* texts in one get_embeddings_batch call
MaxRows == 6         \* rows the document_chunks table returns to the fallback
MaxParagraphs == 3   \* paragraphs of a text given to chunk_text
BusyBursts == 2      \* bursts of is_rate_limited calls on the busy day
BusyAdvances == 1    \* clock advances on the busy day
MaxTrialQueries == 21  \* query_documents calls in one behaviour of SpecTrial
MaxBatches == 3      \* insertion batches of one _process_chunks_optimized call

(***************************************************************************)
(* State of the program                                                    *)
(***************************************************************************)
\* services/task_queue.py : BackgroundTaskQueue
VARIABLES
    task_queue,        \* Queue(): FIFO of task ids waiting for a worker
    unfinished_tasks,  \* Queue.unfinished_tasks: put() +1, task_done() -1
    results,           \* self.results: task id -> recorded status
    stop_signal,       \* threading.Event
    wpc,               \* position of each worker thread in _worker
    wtask,             \* task a worker holds while it runs it
    spc,               \* position of the thread inside submit_task
    stask,             \* task id of the submit_task call in progress
    submitted,         \* number of ids handed out so far (fresh uuid4 each)
    shpc,              \* position of the thread inside shutdown
    started,           \* history: the task ids in the order func was called
    sh_before          \* history: the ids submit_task had returned when
                       \* shutdown was called

tqVars == <<task_queue, unfinished_tasks, results, stop_signal, wpc, wtask,
            spc, stask, submitted, shpc, started, sh_before>>

\* services/rate_limiter.py : RateLimiter
VARIABLES
    now,             \* time.time(), in ticks
    user_requests,   \* self.user_requests: user -> endpoint -> <<ts, count>>*
    groq_requests,   \* self.groq_requests: times of accepted queries
    rl_accepted,     \* history: times at which each class accepted a request
    rl_last,         \* history: the last is_rate_limited call and its answer
    rl_calls,        \* number of bursts of is_rate_limited calls made
    rl_advances      \* number of clock advances made

rlVars == <<now, user_requests, groq_requests, rl_accepted, rl_last, rl_calls,
            rl_advances>>

\* services/supabase_client.py : the "documents" table and its callers
VARIABLES
    documents,   \* rows of the "documents" table, in insertion order
    dpc,         \* position of each caller inside create_document
    dlocal,      \* locals of the call: user_id, file_name, new_version
    doc_calls    \* number of calls begun

docVars == <<documents, dpc, dlocal, doc_calls>>

\* services/query_service.py : retrieval filtering and context assembly
VARIABLES
    similar_chunks,   \* what search_similar_chunks returned, in rank order
    ret_pc,           \* "search" while the result is built, then "done"
    context_chunks,   \* the chunks passed to _build_cross_document_context
    rendered,         \* the context: per document, its sections in order
    sources,          \* the source names returned with the context
    chunks_used       \* "chunks_used" of the result (-1: no such field)

retVars == <<similar_chunks, ret_pc, context_chunks, rendered, sources,
             chunks_used>>

\* routers/query.py and services/query_service.py : the query requests
VARIABLES
    q,                     \* the requests being handled, one per slot
    user_settings,         \* "user_settings" table: query_count per user
    groq_rate_limits,      \* QueryService.groq_rate_limits
    conversation_context,  \* QueryService.conversation_context
    chat_history,          \* rows of the "chat_history" table
    llm_call_times,        \* history: the time of every llm.complete call
    q_arrivals,            \* number of query requests received
    trial_passed           \* history: per user, the queries let past the
                           \* trial check

qVars == <<q, user_settings, groq_rate_limits, conversation_context,
           chat_history, llm_call_times, q_arrivals, trial_passed>>

\* services/query_service.py : the conversation memory on its own
VARIABLES
    exchanges,             \* history: each user's exchanges since the last clear
    mem_ops                \* number of memory operations made

memVars == <<exchanges, mem_ops>>

\* routers/ingest.py and services/fast_ingest_service.py : ingestion
VARIABLES
    ing,                   \* the ingestion being handled
    disk,                  \* the temporary files on disk
    ing_arrivals,          \* number of ingestions started
    document_chunks        \* rows of the "document_chunks" table, in
                           \* insertion order

ingVars == <<ing, disk, ing_arrivals, document_chunks>>

\* services/fast_embedding_service.py : FastEmbeddingService
VARIABLES
    emb,                   \* _model, _model_loaded, and the models built
    callers,               \* position of each get_embeddings_batch call
    emb_calls              \* number of get_embeddings_batch calls begun

embVars == <<emb, callers, emb_calls>>

\* services/supabase_client.py : the fallback of the similarity search
VARIABLES
    fb_rows                \* rows the document_chunks table query returns

fbVars == <<fb_rows>>

\* services/enhanced_chunking.py : one chunk_text call
VARIABLES
    ch_text,               \* the text and the metadata chunk_text is given
    ch_chunks,             \* the chunks it returns
    ch_pc                  \* "call" before the call, "done" after it

chVars == <<ch_text, ch_chunks, ch_pc>>

\* the components modelled after the query requests
extVars == <<memVars, ingVars, embVars, fbVars, chVars>>

vars == <<tqVars, rlVars, docVars, retVars, qVars, extVars>>

\* What a step of one component leaves alone
TQFrame == UNCHANGED <<rlVars, docVars, retVars, qVars, extVars>>
RLFrame == UNCHANGED <<tqVars, docVars, retVars, qVars, extVars>>
DocFrame == UNCHANGED <<tqVars, rlVars, retVars, qVars, extVars>>
RetFrame == UNCHANGED <<tqVars, rlVars, docVars, qVars, extVars>>
\* a query step reads the documents table and moves the limiter and clock
QFrame == UNCHANGED <<tqVars, docVars, retVars, rl_accepted, rl_last,
                      rl_calls, rl_advances, extVars>>
\* a memory operation touches the conversation memory only
MemFrame == UNCHANGED <<tqVars, rlVars, docVars, retVars, q, user_settings,
                        groq_rate_limits, chat_history, llm_call_times,
                        q_arrivals, trial_passed, ingVars, embVars, fbVars,
                        chVars>>
\* an ingestion step can move the limiter, the settings and the documents
IngFrame == UNCHANGED <<tqVars, retVars, memVars, now, rl_accepted, rl_last,
                        rl_calls, rl_advances, dpc, dlocal, doc_calls, q,
                        groq_rate_limits, conversation_context, chat_history,
                        llm_call_times, q_arrivals, trial_passed, embVars,
                        fbVars,
                        chVars>>
\* a step of the embedding service touches nothing else
EmbFrame == UNCHANGED <<tqVars, rlVars, docVars, retVars, qVars, memVars,
                        ingVars, fbVars, chVars>>
\* chunk_text is a function of its arguments
ChFrame == UNCHANGED <<tqVars, rlVars, docVars, retVars, qVars, memVars,
                       ingVars, embVars, fbVars>>

(***************************************************************************)
(* Generic helpers                                                         *)
(***************************************************************************)
Range(s) == {s[i] : i \in 1..Len(s)}

(***************************************************************************)
(* services/task_queue.py : BackgroundTaskQueue                            *)
(***************************************************************************)
max_workers == 2
Workers == 1..max_workers
TaskIds == 1..MaxTasks
NoTask == 0
Terminal == {"completed", "failed"}

TQInit ==
    /\ task_queue = <<>>
    /\ unfinished_tasks = 0
    /\ results = [t \in TaskIds |-> "not_found"]
    /\ stop_signal = FALSE
    /\ wpc = [w \in Workers |-> "loop"]
    /\ wtask = [w \in Workers |-> NoTask]
    /\ spc = "idle"
    /\ stask = NoTask
    /\ submitted = 0
    /\ shpc = "idle"
    /\ started = <<>>
    /\ sh_before = {}

\* get_task_status: self.results.get(task_id, {"status": "not_found"})
get_task_status(t) == results[t]

\* submit_task, first half: task_id = uuid4(); self.task_queue.put(...)
SubmitPut ==
    /\ spc = "idle"
    /\ submitted < MaxTasks
    /\ submitted' = submitted + 1
    /\ stask' = submitted + 1
    /\ task_queue' = Append(task_queue, submitted + 1)
    /\ unfinished_tasks' = unfinished_tasks + 1
    /\ spc' = "put_done"
    /\ UNCHANGED <<results, stop_signal, wpc, wtask, shpc>>
    /\ UNCHANGED <<started, sh_before>>
    /\ TQFrame

\* submit_task, second half: self.results[task_id] = {"status": "queued"}
SubmitRecord ==
    /\ spc = "put_done"
    /\ results' = [results EXCEPT ![stask] = "queued"]
    /\ spc' = "idle"
    /\ stask' = NoTask
    /\ UNCHANGED <<task_queue, unfinished_tasks, stop_signal, wpc, wtask,
                   submitted, shpc>>
    /\ UNCHANGED <<started, sh_before>>
    /\ TQFrame

\* _worker: while not self.stop_signal.is_set()
WorkerLoop(w) ==
    /\ wpc[w] = "loop"
    /\ wpc' = [wpc EXCEPT ![w] = IF stop_signal THEN "exited" ELSE "get"]
    /\ UNCHANGED <<task_queue, unfinished_tasks, results, stop_signal, wtask,
                   spc, stask, submitted, shpc>>
    /\ UNCHANGED <<started, sh_before>>
    /\ TQFrame

\* A queue that hands out its newest entry
WorkerGetLast(w) ==
    /\ wpc[w] = "get"
    /\ task_queue # <<>>
    /\ wtask' = [wtask EXCEPT ![w] = task_queue[Len(task_queue)]]
    /\ task_queue' = SubSeq(task_queue, 1, Len(task_queue) - 1)
    /\ wpc' = [wpc EXCEPT ![w] = "call"]
    /\ UNCHANGED <<unfinished_tasks, results, stop_signal, spc, stask,
                   submitted, shpc>>
    /\ UNCHANGED <<started, sh_before>>
    /\ TQFrame

\* _worker: self.task_queue.get(timeout=1.0) returns the head of the queue
WorkerGet(w) ==
    /\ wpc[w] = "get"
    /\ task_queue # <<>>
    /\ wtask' = [wtask EXCEPT ![w] = Head(task_queue)]
    /\ task_queue' = Tail(task_queue)
    /\ wpc' = [wpc EXCEPT ![w] = "call"]
    /\ UNCHANGED <<unfinished_tasks, results, stop_signal, spc, stask,
                   submitted, shpc>>
    /\ UNCHANGED <<started, sh_before>>
    /\ TQFrame

\* _worker: get() times out on an empty queue, Empty -> continue
WorkerTimeout(w) ==
    /\ wpc[w] = "get"
    /\ task_queue = <<>>
    /\ wpc' = [wpc EXCEPT ![w] = "loop"]
    /\ UNCHANGED <<task_queue, unfinished_tasks, results, stop_signal, wtask,
                   spc, stask, submitted, shpc>>
    /\ UNCHANGED <<started, sh_before>>
    /\ TQFrame

\* _worker: logger.info(...), then func(*args, **kwargs) is called: the
\* task begins executing
WorkerCall(w) ==
    /\ wpc[w] = "call"
    /\ wpc' = [wpc EXCEPT ![w] = "run"]
    /\ started' = Append(started, wtask[w])
    /\ UNCHANGED <<task_queue, unfinished_tasks, results, stop_signal, wtask,
                   spc, stask, submitted, shpc, sh_before>>
    /\ TQFrame

\* _worker: result = func(...) returns or raises; the status is recorded
WorkerRun(w, outcome) ==
    /\ wpc[w] = "run"
    /\ results' = [results EXCEPT ![wtask[w]] = outcome]
    /\ wpc' = [wpc EXCEPT ![w] = "task_done"]
    /\ UNCHANGED <<task_queue, unfinished_tasks, stop_signal, wtask, spc,
                   stask, submitted, shpc>>
    /\ UNCHANGED <<started, sh_before>>
    /\ TQFrame

\* _worker: finally: self.task_queue.task_done()
WorkerTaskDone(w) ==
    /\ wpc[w] = "task_done"
    /\ unfinished_tasks' = unfinished_tasks - 1
    /\ wtask' = [wtask EXCEPT ![w] = NoTask]
    /\ wpc' = [wpc EXCEPT ![w] = "loop"]
    /\ UNCHANGED <<task_queue, results, stop_signal, spc, stask, submitted,
                   shpc>>
    /\ UNCHANGED <<started, sh_before>>
    /\ TQFrame

\* shutdown: self.stop_signal.set()
ShutdownSet ==
    /\ shpc = "idle"
    /\ stop_signal' = TRUE
    /\ shpc' = "join"
    /\ UNCHANGED <<task_queue, unfinished_tasks, results, wpc, wtask, spc,
                   stask, submitted>>
    /\ sh_before' = {t \in TaskIds : t <= submitted /\ t # stask}
    /\ UNCHANGED started
    /\ TQFrame

\* shutdown: self.task_queue.join() returns once unfinished_tasks is 0
ShutdownJoin ==
    /\ shpc = "join"
    /\ unfinished_tasks = 0
    /\ shpc' = "returned"
    /\ UNCHANGED <<task_queue, unfinished_tasks, results, stop_signal, wpc,
                   wtask, spc, stask, submitted>>
    /\ UNCHANGED <<started, sh_before>>
    /\ TQFrame

WorkerStep(w) ==
    \/ WorkerLoop(w)
    \/ WorkerGet(w)
    \/ WorkerTimeout(w)
    \/ WorkerCall(w)
    \/ \E outcome \in Terminal : WorkerRun(w, outcome)
    \/ WorkerTaskDone(w)

TQNext ==
    \/ SubmitPut
    \/ SubmitRecord
    \/ \E w \in Workers : WorkerStep(w)
    \/ ShutdownSet
    \/ ShutdownJoin

(***************************************************************************)
(* services/rate_limiter.py : RateLimiter                                  *)
(* Time is counted in ticks of 1/TicksPerSec second, so that requests can *)
(* arrive inside a second; int(current_time) is the whole second.         *)
(***************************************************************************)
Users == {"u1", "u2"}
EndpointTypes == {"query", "file_operations"}
WindowKeys == {"query", "file_operations", "total"}

\* self.limits: (max_requests, time_window_seconds)
QueryLimit == 10
QueryWindow == 60
FileOpsLimit == 10
FileOpsWindow == 3600
TotalLimit == 100
TotalWindow == 86400
GroqGlobalLimit == 30
GroqGlobalWindow == 60

limits ==
    [query |-> <<QueryLimit, QueryWindow>>,
     file_operations |-> <<FileOpsLimit, FileOpsWindow>>,
     total |-> <<TotalLimit, TotalWindow>>,
     groq_global |-> <<GroqGlobalLimit, GroqGlobalWindow>>]

\* seconds -> ticks
Secs(n) == n * TicksPerSec

\* int(current_time)
IntSecond(t) == t \div TicksPerSec

RECURSIVE SumCounts(_)
SumCounts(s) == IF s = <<>> THEN 0 ELSE Head(s)[2] + SumCounts(Tail(s))

\* current_time - ts < window, ts a whole second, window in seconds
WithinWindow(t, ts, window) == t - Secs(ts) < Secs(window)

\* _clean_old_records: drop the user's records older than 24 hours
clean_old_records(ur, u, t) ==
    [ur EXCEPT ![u] =
        [k \in WindowKeys |->
            SelectSeq(ur[u][k], LAMBDA r : WithinWindow(t, r[1], 86400))]]

\* _get_request_count: sum of the counts recorded inside the window
get_request_count(ur, u, k, window, t) ==
    SumCounts(SelectSeq(ur[u][k], LAMBDA r : WithinWindow(t, r[1], window)))

\* _record_request, with the second the record is filed under
RecordAt(recs, sec) ==
    IF recs # <<>> /\ recs[Len(recs)][1] = sec
    THEN [recs EXCEPT ![Len(recs)] = <<sec, recs[Len(recs)][2] + 1>>]
    ELSE Append(recs, <<sec, 1>>)

\* _record_request: current_second = int(current_time)
record_request(ur, u, k, t) ==
    [ur EXCEPT ![u][k] = RecordAt(ur[u][k], IntSecond(t))]

\* A global check that records the request it rejects
check_groq_records_rejected(gr, t) ==
    LET pruned == SelectSeq(gr, LAMBDA x : t - x < Secs(60))
    IN  IF Len(pruned) >= limits["groq_global"][1]
        THEN [limited |-> TRUE, groq_requests |-> Append(pruned, t)]
        ELSE [limited |-> FALSE, groq_requests |-> Append(pruned, t)]

\* _check_groq_global_limit: prune, test the limit, record the request
check_groq_global_limit(gr, t) ==
    LET pruned == SelectSeq(gr, LAMBDA x : t - x < Secs(60))
    IN  IF Len(pruned) >= limits["groq_global"][1]
        THEN [limited |-> TRUE, groq_requests |-> pruned]
        ELSE [limited |-> FALSE, groq_requests |-> Append(pruned, t)]

\* is_rate_limited: the answer and the limiter's state after the call
is_rate_limited(ur, gr, u, e, t) ==
    LET cleaned == clean_old_records(ur, u, t)
        endpoint_count == get_request_count(cleaned, u, e, limits[e][2], t)
        total_count == get_request_count(cleaned, u, "total", limits["total"][2], t)
        groq == check_groq_global_limit(gr, t)
    IN  IF endpoint_count >= limits[e][1]
        THEN [limited |-> TRUE, message |-> e,
              user_requests |-> cleaned, groq_requests |-> gr]
        ELSE IF total_count >= limits["total"][1]
        THEN [limited |-> TRUE, message |-> "total",
              user_requests |-> cleaned, groq_requests |-> gr]
        ELSE IF e = "query" /\ groq.limited
        THEN [limited |-> TRUE, message |-> "groq_global",
              user_requests |-> cleaned, groq_requests |-> groq.groq_requests]
        ELSE [limited |-> FALSE, message |-> "",
              user_requests |->
                  record_request(record_request(cleaned, u, e, t), u, "total", t),
              groq_requests |->
                  IF e = "query" THEN groq.groq_requests ELSE gr]

\* What the windows hold at time t: every user's count in each of its
\* windows, and the number of requests in the global window
WindowCounts(ur, gr, t) ==
    [users |-> [u \in Users |-> [k \in WindowKeys |->
                   get_request_count(ur, u, k, limits[k][2], t)]],
     groq_global |-> Len(SelectSeq(gr,
                         LAMBDA x : t - x < Secs(limits["groq_global"][2])))]

NoCall == [user |-> "none", endpoint |-> "none", time |-> 0, limited |-> FALSE,
           before |-> <<>>, others_permit |-> FALSE, message |-> "",
           counts_before |-> <<>>, counts_after |-> <<>>]

RLInit ==
    /\ now = 0
    /\ user_requests = [u \in Users |-> [k \in WindowKeys |-> <<>>]]
    /\ groq_requests = <<>>
    /\ rl_accepted = [u \in Users |-> [k \in EndpointTypes |-> <<>>]]
    /\ rl_last = NoCall
    /\ rl_calls = 0
    /\ rl_advances = 0

\* What the other classes say about a request of u at time t: the daily
\* total and, for a query, the global answering-service window.
OthersPermit(ur, gr, u, e, t) ==
    LET cleaned == clean_old_records(ur, u, t)
    IN  /\ get_request_count(cleaned, u, "total", limits["total"][2], t)
              < limits["total"][1]
        /\ e = "query" => ~check_groq_global_limit(gr, t).limited

\* One call rate_limiter.is_rate_limited(u, e) made by a router at time t,
\* on the limiter state st; the history fields are kept alongside.
CallLimiter(st, u, e, t) ==
    LET r == is_rate_limited(st.user_requests, st.groq_requests, u, e, t)
    IN  [user_requests |-> r.user_requests,
         groq_requests |-> r.groq_requests,
         last |-> [user |-> u, endpoint |-> e, time |-> t,
                   limited |-> r.limited, before |-> st.accepted[u][e],
                   others_permit |->
                       OthersPermit(st.user_requests, st.groq_requests, u, e, t),
                   message |-> r.message,
                   counts_before |->
                       WindowCounts(st.user_requests, st.groq_requests, t),
                   counts_after |->
                       WindowCounts(r.user_requests, r.groq_requests, t)],
         accepted |-> IF r.limited THEN st.accepted
                      ELSE [st.accepted EXCEPT ![u][e] = Append(@, t)]]

RECURSIVE CallLimiterTimes(_, _, _, _, _)
CallLimiterTimes(st, u, e, t, n) ==
    IF n = 0 THEN st
    ELSE CallLimiterTimes(CallLimiter(st, u, e, t), u, e, t, n - 1)

\* Sizes of the bursts: one request, or all but one of a class limit
BurstSizes == {1, QueryLimit - 1}

\* n requests of user u for class e arrive at the same instant: a router
\* calls rate_limiter.is_rate_limited(user_id, endpoint_type) for each
IsRateLimited(u, e, n) ==
    LET st == CallLimiterTimes(
                  [user_requests |-> user_requests,
                   groq_requests |-> groq_requests,
                   last |-> rl_last, accepted |-> rl_accepted], u, e, now, n)
    IN  /\ user_requests' = st.user_requests
        /\ groq_requests' = st.groq_requests
        /\ rl_last' = st.last
        /\ rl_accepted' = st.accepted
        /\ rl_calls' = rl_calls + 1
        /\ UNCHANGED <<now, rl_advances>>
        /\ RLFrame

\* Delays between two requests, in ticks: the next instant, and one instant
\* less than each class window
Delays == {1, Secs(QueryWindow) - 1, Secs(FileOpsWindow) - 1}

\* The clock moves on by d ticks
AdvanceClock(d) ==
    /\ now' = now + d
    /\ rl_advances' = rl_advances + 1
    /\ UNCHANGED <<user_requests, groq_requests, rl_accepted, rl_last, rl_calls>>
    /\ RLFrame

RLNext ==
    \/ \E u \in Users, e \in EndpointTypes, n \in BurstSizes :
           rl_calls < MaxBursts /\ IsRateLimited(u, e, n)
    \/ \E d \in Delays : rl_advances < MaxAdvances /\ AdvanceClock(d)

\* n records of count c, one a minute, the first at second from
MinuteRecords(from, n, c) == [i \in 1..n |-> <<from + (i - 1) * QueryWindow, c>>]

\* The limiter on a busy day, at second 660.0: u1 has asked 10 questions a
\* minute for eight minutes from second 0, and both users asked 10
\* questions at second 600.5
BusyDay ==
    /\ now = Secs(660)
    /\ user_requests =
           [u \in Users |-> [k \in WindowKeys |->
               IF k = "file_operations" THEN <<>>
               ELSE IF u = "u1"
               THEN MinuteRecords(0, 8, QueryLimit) \o <<<<600, QueryLimit>>>>
               ELSE <<<<600, QueryLimit>>>>]]
    /\ groq_requests = [i \in 1..(2 * QueryLimit) |-> Secs(600) + 1]
    /\ rl_accepted = [u \in Users |-> [k \in EndpointTypes |-> <<>>]]
    /\ rl_last = NoCall
    /\ rl_calls = 0
    /\ rl_advances = 0

\* Requests on the busy day: one, or a full class limit at once; the clock
\* moves by the next instant or a minute
BusyNext ==
    \/ \E u \in Users, e \in EndpointTypes, n \in {1, QueryLimit} :
           rl_calls < BusyBursts /\ IsRateLimited(u, e, n)
    \/ \E d \in {1, Secs(QueryWindow)} :
           rl_advances < BusyAdvances /\ AdvanceClock(d)

(***************************************************************************)
(* services/supabase_client.py : document versioning                       *)
(* The "documents" table lives in the store; every .execute() is one      *)
(* request, and requests of different callers interleave.                 *)
(***************************************************************************)
Clients == 1..MaxClients
FileNames == {"a.txt", "b.txt"}
NoLocal == [user_id |-> "none", file_name |-> "none", new_version |-> 0,
            existing |-> FALSE]

DocInit ==
    /\ documents = <<>>
    /\ dpc = [c \in Clients |-> "idle"]
    /\ dlocal = [c \in Clients |-> NoLocal]
    /\ doc_calls = 0

\* .eq("user_id", user_id).eq("file_name", file_name): the matching rows
RowsOf(docs, u, f) ==
    {i \in 1..Len(docs) : docs[i].user_id = u /\ docs[i].file_name = f}

\* .order("version", desc=True).limit(1): the highest version stored
MaxVersion(docs, u, f) ==
    CHOOSE v \in {docs[i].version : i \in RowsOf(docs, u, f)} :
        \A i \in RowsOf(docs, u, f) : docs[i].version <= v

\* new_version = 1; if existing.data: new_version = version + 1
NewVersion(docs, u, f) ==
    IF RowsOf(docs, u, f) = {} THEN 1 ELSE MaxVersion(docs, u, f) + 1

\* A faulty deactivation: the update matches no row
DeactivateNone(docs, u, f) == docs

\* .update({"is_active": False}).eq("user_id", ..).eq("file_name", ..)
Deactivate(docs, u, f) ==
    [i \in 1..Len(docs) |->
        IF i \in RowsOf(docs, u, f)
        THEN [docs[i] EXCEPT !.is_active = FALSE]
        ELSE docs[i]]

\* get_active_documents: the user's rows with is_active = true
get_active_documents(docs, u) ==
    {i \in 1..Len(docs) : docs[i].user_id = u /\ docs[i].is_active}

ActiveRows(docs, u, f) == {i \in RowsOf(docs, u, f) : docs[i].is_active}

AllIdle == \A c \in Clients : dpc[c] = "idle"

\* create_document: the select of the highest existing version
CreateSelect(c, u, f) ==
    /\ dpc[c] = "idle"
    /\ doc_calls < MaxDocCalls
    /\ doc_calls' = doc_calls + 1
    /\ dlocal' = [dlocal EXCEPT ![c] =
           [user_id |-> u, file_name |-> f,
            new_version |-> NewVersion(documents, u, f),
            existing |-> RowsOf(documents, u, f) # {}]]
    /\ dpc' = [dpc EXCEPT ![c] =
           IF RowsOf(documents, u, f) # {} THEN "update" ELSE "insert"]
    /\ UNCHANGED documents
    /\ DocFrame

\* create_document: if existing.data, the update that deactivates the rows
CreateUpdate(c) ==
    /\ dpc[c] = "update"
    /\ documents' = Deactivate(documents, dlocal[c].user_id, dlocal[c].file_name)
    /\ dpc' = [dpc EXCEPT ![c] = "insert"]
    /\ UNCHANGED <<dlocal, doc_calls>>
    /\ DocFrame

\* create_document: the insert of the new active row; the call returns
CreateInsert(c) ==
    /\ dpc[c] = "insert"
    /\ documents' = Append(documents,
           [id |-> Len(documents) + 1,
            user_id |-> dlocal[c].user_id,
            file_name |-> dlocal[c].file_name,
            version |-> dlocal[c].new_version,
            is_active |-> TRUE])
    /\ dpc' = [dpc EXCEPT ![c] = "idle"]
    /\ dlocal' = [dlocal EXCEPT ![c] = NoLocal]
    /\ UNCHANGED doc_calls
    /\ DocFrame

\* soft_delete_document: one update request
SoftDelete(c, u, f) ==
    /\ dpc[c] = "idle"
    /\ doc_calls < MaxDocCalls
    /\ doc_calls' = doc_calls + 1
    /\ documents' = Deactivate(documents, u, f)
    /\ UNCHANGED <<dpc, dlocal>>
    /\ DocFrame

\* Callers interleave request by request
DocNext ==
    \/ \E c \in Clients, u \in Users, f \in FileNames : CreateSelect(c, u, f)
    \/ \E c \in Clients : CreateUpdate(c)
    \/ \E c \in Clients : CreateInsert(c)
    \/ \E c \in Clients, u \in Users, f \in FileNames : SoftDelete(c, u, f)

\* Calls follow one another: a call begins when no other is in progress
DocSeqNext ==
    \/ \E c \in Clients, u \in Users, f \in FileNames :
           AllIdle /\ CreateSelect(c, u, f)
    \/ \E c \in Clients : CreateUpdate(c)
    \/ \E c \in Clients : CreateInsert(c)
    \/ \E c \in Clients, u \in Users, f \in FileNames :
           AllIdle /\ SoftDelete(c, u, f)

(***************************************************************************)
(* services/query_service.py : similarity filter and context assembly     *)
(* services/fast_ingest_service.py : the chunk records ingestion stores   *)
(* A dict is a function; d.get(k, default) reads a key that may be absent. *)
(* Similarity scores are counted in hundredths.                           *)
(***************************************************************************)
Get(d, k, default) == IF k \in DOMAIN d THEN d[k] ELSE default

DocIds == {"d1", "d2"}
SourceName == [d \in DocIds |-> IF d = "d1" THEN "a.txt" ELSE "b.txt"]

\* if chunk.get("similarity", 0) > 0.25
SimilarityThreshold == 25
\* similar_chunks = filtered_chunks[:8]
MaxContextChunks == 8

\* _process_chunks_optimized: the record stored for chunk i of document d;
\* the metadata is the one chunk_text was given (source, document_id)
chunk_record(d, i) ==
    [document_id |-> d,
     chunk_text |-> <<d, i>>,
     chunk_index |-> i,
     metadata |-> [source |-> SourceName[d], document_id |-> d]]

\* A stored chunk as the search returns it, with its similarity score
Scored(rec, sim) ==
    [document_id |-> rec.document_id, chunk_text |-> rec.chunk_text,
     chunk_index |-> rec.chunk_index, metadata |-> rec.metadata,
     similarity |-> sim]

\* A faulty filter: chunks at the threshold pass
SurvivesAtThreshold(chunk) == Get(chunk, "similarity", 0) >= SimilarityThreshold

\* chunk.get("similarity", 0) > 0.25
Survives(chunk) == Get(chunk, "similarity", 0) > SimilarityThreshold

\* filtered_chunks = [chunk for chunk in similar_chunks if ...]
FilterChunks(chunks) == SelectSeq(chunks, Survives)

\* filtered_chunks[:8]
FirstChunks(chunks) ==
    SubSeq(chunks, 1, IF Len(chunks) < MaxContextChunks THEN Len(chunks)
                      ELSE MaxContextChunks)

\* key=lambda x: x.get("metadata", {}).get("chunk_index", 0)
SortKey(chunk) == Get(Get(chunk, "metadata", <<>>), "chunk_index", 0)

\* doc_id = chunk.get("metadata", {}).get("document_id", "unknown")
GroupKey(chunk) == Get(Get(chunk, "metadata", <<>>), "document_id", "unknown")

\* src = chunk.get("metadata", {}).get("source", "Unknown document")
GroupName(chunk) == Get(Get(chunk, "metadata", <<>>), "source", "Unknown document")

\* sorted(): a stable sort, equal keys keep their order
RECURSIVE SortedByKey(_)
SortedByKey(chunks) ==
    IF chunks = <<>> THEN <<>>
    ELSE LET n == Len(chunks)
             front == SortedByKey(SubSeq(chunks, 1, n - 1))
             c == chunks[n]
             k == Cardinality({i \in 1..Len(front) : SortKey(front[i]) <= SortKey(c)})
         IN  SubSeq(front, 1, k) \o <<c>> \o SubSeq(front, k + 1, Len(front))

\* the keys of the documents dict, in the order they were first inserted
RECURSIVE GroupOrder(_)
GroupOrder(chunks) ==
    IF chunks = <<>> THEN <<>>
    ELSE LET n == Len(chunks)
             front == GroupOrder(SubSeq(chunks, 1, n - 1))
         IN  IF \E i \in 1..Len(front) : front[i] = GroupKey(chunks[n])
             THEN front
             ELSE Append(front, GroupKey(chunks[n]))

\* _build_cross_document_context: per document, its name, its count and its
\* sections in the order they are written to the context string
build_cross_document_context(chunks) ==
    LET order == GroupOrder(chunks)
        group(d) == SelectSeq(chunks, LAMBDA c : GroupKey(c) = d)
    IN  [context |->
            [g \in 1..Len(order) |->
                [doc_id |-> order[g],
                 name |-> GroupName(group(order[g])[1]),
                 chunk_count |-> Len(group(order[g])),
                 sections |-> SortedByKey(group(order[g]))]],
         sources |-> {GroupName(group(order[g])[1]) : g \in 1..Len(order)}]

RetInit ==
    /\ similar_chunks = <<>>
    /\ ret_pc = "search"
    /\ context_chunks = <<>>
    /\ rendered = <<>>
    /\ sources = {}
    /\ chunks_used = -1

\* The scores a search can attach: none, at the threshold, above it
NoScore == -1
SimChoices == {NoScore, SimilarityThreshold, SimilarityThreshold + 1}

\* The search returns one more chunk of a long document, next in rank,
\* with or without a similarity score
SearchRanked(sim) ==
    /\ ret_pc = "search"
    /\ Len(similar_chunks) < MaxResults
    /\ similar_chunks' = Append(similar_chunks,
           IF sim = NoScore THEN chunk_record("d1", Len(similar_chunks))
           ELSE Scored(chunk_record("d1", Len(similar_chunks)), sim))
    /\ UNCHANGED <<ret_pc, context_chunks, rendered, sources, chunks_used>>
    /\ RetFrame

\* The search returns, next in rank, a stored chunk it has not returned
\* yet, with a score above the threshold
SearchStored(d, i) ==
    /\ ret_pc = "search"
    /\ \A k \in 1..Len(similar_chunks) :
           similar_chunks[k].chunk_text # <<d, i>>
    /\ similar_chunks' = Append(similar_chunks,
           Scored(chunk_record(d, i), SimilarityThreshold + 1))
    /\ UNCHANGED <<ret_pc, context_chunks, rendered, sources, chunks_used>>
    /\ RetFrame

\* _process_query from the filter to the result: filter, cut to 8, build
\* the context; with no survivor the context is not built
ProcessChunks ==
    /\ ret_pc = "search"
    /\ ret_pc' = "done"
    /\ LET filtered_chunks == FilterChunks(similar_chunks)
           passed == FirstChunks(filtered_chunks)
           built == build_cross_document_context(passed)
       IN  IF filtered_chunks = <<>>
           THEN UNCHANGED <<context_chunks, rendered, sources, chunks_used>>
           ELSE /\ context_chunks' = passed
                /\ rendered' = built.context
                /\ sources' = built.sources
                /\ chunks_used' = Len(passed)
    /\ UNCHANGED similar_chunks
    /\ RetFrame

\* Results that differ in their scores
FilterNext ==
    \/ \E sim \in SimChoices : SearchRanked(sim)
    \/ ProcessChunks

\* Results that differ in their rank order
ContextNext ==
    \/ \E d \in DocIds, i \in 0..MaxChunkIndex : SearchStored(d, i)
    \/ ProcessChunks

(***************************************************************************)
(* routers/query.py, services/query_service.py : one query request        *)
(* The handlers are coroutines on one event loop: the code between two    *)
(* awaits that suspend is one step.                                       *)
(***************************************************************************)
Slots == 1..MaxInFlight

\* The questions a caller can send: answerable, shorter than 2 characters
\* after trimming, longer than 5000 characters
Questions == {"valid", "short", "long"}

\* sanitize_text: text[:max_length] cuts a long question to 5000 characters
sanitize_text(question) == IF question = "long" THEN "valid" ELSE question

\* user_settings row absent
NoSettings == -1
\* if query_count >= 20
TrialLimit == 20
\* max_retries = 2
max_retries == 2
\* retry_delay = 1.0
RetryDelay == 1
\* a loop that retries once more
MayRetryOnceMore(attempt) == attempt <= max_retries

\* if attempt < max_retries
MayRetry(attempt) == attempt < max_retries
\* groq_rate_limits["min_interval"]
MinInterval == 1
\* groq_rate_limits["max_requests_per_minute"]
MaxRequestsPerMinute == 30
\* answer[:500], conversation_context[user_id][-5:]
MemorySize == 5

\* What llm.complete can do: answer, fail with a 429 / "rate limit"
\* message, fail with a "timeout" message, fail otherwise
LLMOutcomes == {"ok", "rate_limit", "timeout", "error"}

\* SupabaseClient defines no increment_query_count: the call in
\* query_documents raises AttributeError
HasIncrementQueryCount == FALSE

\* A trial check that lets the 20th stored query through
TrialEndedAbove(query_count) == query_count > TrialLimit

\* if query_count >= 20
TrialEnded(query_count) == query_count >= TrialLimit

\* A lookup whose empty result is not acted on
NoDocumentsIgnored(found) == FALSE

\* documents = get_active_documents(user_id); if not documents
NoDocuments(found) == found = {}

IdleSlot ==
    [pc |-> "idle", user |-> "none", question |-> "none", attempt |-> 0,
     retry_delay |-> 0, wake |-> 0, calls |-> {}, llm_calls |-> 0,
     count_read |-> NoSettings, count_before |-> NoSettings,
     count_after |-> NoSettings, chunks |-> <<>>, answer |-> "none",
     inner |-> "none", result |-> "none", error_message |-> {},
     failures |-> <<>>, embedding |-> "none", source_files |-> {},
     response |-> [status_code |-> 0, body |-> {}]]

\* The stored counters a request can find: no row yet, below the ceiling,
\* at it, above it
StoredCounts == {NoSettings, TrialLimit - 1, TrialLimit, TrialLimit + 1}

\* One active document of user u, as create_document stores it
StoredDocument(u, n) ==
    [id |-> n, user_id |-> u, file_name |-> "a.txt", version |-> 1,
     is_active |-> TRUE]

QInit ==
    /\ q = [s \in Slots |-> IdleSlot]
    /\ user_settings = [u \in Users |-> NoSettings]
    /\ groq_rate_limits = [last_request_time |-> 0 - Secs(86400),
                           request_times |-> <<>>]
    /\ conversation_context = [u \in Users |-> <<>>]
    /\ chat_history = <<>>
    /\ llm_call_times = <<>>
    /\ q_arrivals = 0
    /\ trial_passed = [u \in Users |-> 0]

\* The results a similarity search can return: nothing, one chunk at the
\* threshold, two chunks of a document above it (chunk 1 ranked first)
SearchOutcomes ==
    {<<>>,
     <<Scored(chunk_record("d1", 0), SimilarityThreshold)>>,
     <<Scored(chunk_record("d1", 1), SimilarityThreshold + 2),
       Scored(chunk_record("d1", 0), SimilarityThreshold + 1)>>}

\* The answers of the answering service: at most 500 characters, or more
Answers == {"answer", "long_answer"}

\* answer[:500]
Truncate500(answer) ==
    IF answer = "long_answer" THEN "long_answer[:500]" ELSE answer

\* A memory update that stores the exchange twice
update_conversation_context_twice(cc, u, question, answer) ==
    LET entry == [question |-> question, answer |-> Truncate500(answer)]
    IN  [cc EXCEPT ![u] = Append(Append(cc[u], entry), entry)]

\* _update_conversation_context: append, keep the last 5
update_conversation_context(cc, u, question, answer) ==
    LET added == Append(cc[u], [question |-> question,
                                answer |-> Truncate500(answer)])
    IN  [cc EXCEPT ![u] =
            IF Len(added) > MemorySize
            THEN SubSeq(added, Len(added) - MemorySize + 1, Len(added))
            ELSE added]

\* A message is the set of the texts it is put together from. The text of a
\* collaborator's own exception is "collaborator_text", the text of
\* Python's AttributeError is "attribute_error_text".
ValidationMessage(question) ==
    IF question = "long" THEN {"Question too long"} ELSE {"Invalid question"}
NotFoundMessage == {"No documents found for user"}
GroqLimitMessage == {"Groq rate limit exceeded"}
SearchMessage == {"Vector search failed", "collaborator_text"}
LLMRateLimitMessage == {"Groq API rate limit exceeded"}
LLMTimeoutMessage ==
    {"LLM response generation failed", "Groq API timeout after retries"}
LLMErrorMessage == {"LLM response generation failed", "collaborator_text"}
AttributeErrorMessage == {"attribute_error_text"}

\* status_code of the AppError subclasses
StatusCode(kind) ==
    CASE kind = "ValidationError" -> 400
      [] kind = "ResourceNotFoundError" -> 404
      [] kind = "RateLimitError" -> 429
      [] kind = "ExternalServiceError" -> 503
      [] OTHER -> 500

\* user_message of the errors raised in _process_query
UserMessage(kind) ==
    CASE kind = "ValidationError" -> {"user guidance: valid question"}
      [] kind = "ResourceNotFoundError" -> {"user guidance: upload documents"}
      [] kind = "RateLimitError" -> {"user guidance: wait and retry"}
      [] OTHER -> {"user guidance: try again"}

\* ExternalServiceError(f"Unexpected error during query: {str(e)}", ...)
WrappedMessage(message) == {"Unexpected error during query"} \cup message

\* the router's except Exception:
\* HTTPException(500, f"Error processing query: {str(e)}")
RouterFailure(message) ==
    [status_code |-> 500, body |-> {"Error processing query"} \cup message]

\* the router's "if not result['success']":
\* HTTPException(404, result.get("error", "Error processing query"))
RouterNotSuccess ==
    [status_code |-> 404, body |-> {"Error processing query"}]

\* the router's HTTPException(429, message) after is_rate_limited
RouterLimited(message) == [status_code |-> 429, body |-> {message}]

\* QueryResponse(answer = result["answer"], success = True)
RouterAnswer(answer) == [status_code |-> 200, body |-> {answer}]

\* query_documents after _process_query has raised: the except clause
\* re-raises every exception as ExternalServiceError
Raised(slot, kind) ==
    [slot EXCEPT !.pc = "done", !.inner = kind,
                 !.result = "ExternalServiceError",
                 !.count_after = user_settings[slot.user]]

\* query_documents after _process_query has returned: increment the
\* counter and return the result
Returned(slot, kind, settings) ==
    IF HasIncrementQueryCount
    THEN [slot EXCEPT !.pc = "done", !.inner = kind, !.result = kind,
                      !.count_after = settings[slot.user] + 1,
                      !.response = RouterAnswer(kind)]
    ELSE [slot EXCEPT !.pc = "done", !.inner = kind,
                      !.result = "ExternalServiceError",
                      !.count_after = settings[slot.user],
                      !.error_message = WrappedMessage(AttributeErrorMessage),
                      !.response =
                          RouterFailure(WrappedMessage(AttributeErrorMessage))]

\* the error of _process_query with its message, as query_documents
\* re-raises it and the router answers it
RaisedWith(slot, kind, message) ==
    [Raised(slot, kind) EXCEPT
        !.error_message = WrappedMessage(message),
        !.response = RouterFailure(WrappedMessage(message))]

\* An exception that leaves line 79 unreached increments as well
SettingsAfterRaiseCounted(slot, settings) ==
    [settings EXCEPT ![slot.user] = @ + 1]

\* query_documents after _process_query has raised: control goes to the
\* except clause, increment_query_count is not reached
SettingsAfterRaise(slot, settings) == settings

\* user_settings.get("query_count", 0)
QueryCount(settings, u) ==
    IF settings[u] = NoSettings THEN 0 ELSE settings[u]

SettingsAfterReturn(slot, settings) ==
    IF HasIncrementQueryCount
    THEN [settings EXCEPT ![slot.user] = @ + 1]
    ELSE settings

\* A query arrives, at the router (rate_limiter.is_rate_limited and
\* sanitization first) or as a direct call of query_documents, and runs
\* to its first suspension: trial check, input validation, document
\* lookup, _apply_groq_rate_limit
Arrive(s, u, question, direct) ==
    /\ q[s].pc = "idle"
    /\ \A other \in Slots : other < s => q[other].pc # "idle"
    /\ LET r == IF direct
                THEN [limited |-> FALSE, message |-> "none",
                      user_requests |-> user_requests,
                      groq_requests |-> groq_requests]
                ELSE is_rate_limited(user_requests, groq_requests, u,
                                     "query", now)
           settings == IF user_settings[u] = NoSettings
                       THEN [user_settings EXCEPT ![u] = 0]
                       ELSE user_settings
           query_count == settings[u]
           slot == [IdleSlot EXCEPT !.user = u,
                                    !.question =
                                        IF direct THEN question
                                        ELSE sanitize_text(question),
                                    !.count_read = query_count,
                                    !.count_before = query_count]
           read == [slot EXCEPT !.calls = {"settings"}]
           looked == [slot EXCEPT !.calls = {"settings", "documents"}]
           request_times == SelectSeq(groq_rate_limits.request_times,
                                      LAMBDA t : now - t < Secs(60))
           time_since_last == now - groq_rate_limits.last_request_time
       IN  /\ user_requests' = r.user_requests
           /\ groq_requests' = r.groq_requests
           /\ IF r.limited
              THEN /\ q' = [q EXCEPT ![s] =
                          [slot EXCEPT !.pc = "done", !.result = "HTTP429",
                                       !.response = RouterLimited(r.message),
                                       !.count_read = NoSettings,
                                       !.count_before = user_settings[u],
                                       !.count_after = user_settings[u]]]
                   /\ UNCHANGED <<user_settings, groq_rate_limits>>
              ELSE /\ user_settings' =
                          IF /\ ~TrialEnded(query_count)
                             /\ \/ read.question \in {"short", "long"}
                                \/ NoDocuments(get_active_documents(documents, u))
                                \/ Len(request_times) >= MaxRequestsPerMinute
                          THEN SettingsAfterRaise(read, settings)
                          ELSE settings
                   /\ IF TrialEnded(query_count)
                      THEN /\ q' = [q EXCEPT ![s] =
                                  [read EXCEPT !.pc = "done",
                                               !.result = "trial_ended",
                                               !.response = RouterNotSuccess,
                                               !.count_after = settings[u]]]
                           /\ UNCHANGED groq_rate_limits
                      ELSE IF read.question \in {"short", "long"}
                      THEN /\ q' = [q EXCEPT ![s] =
                                  [RaisedWith(read, "ValidationError",
                                              ValidationMessage(read.question))
                                      EXCEPT !.count_after = settings[u]]]
                           /\ UNCHANGED groq_rate_limits
                      ELSE IF NoDocuments(get_active_documents(documents, u))
                      THEN /\ q' = [q EXCEPT ![s] =
                                  [RaisedWith(looked, "ResourceNotFoundError",
                                              NotFoundMessage)
                                      EXCEPT !.count_after = settings[u]]]
                           /\ UNCHANGED groq_rate_limits
                      ELSE IF Len(request_times) >= MaxRequestsPerMinute
                      THEN /\ q' = [q EXCEPT ![s] =
                                  [RaisedWith(looked, "RateLimitError",
                                              GroqLimitMessage)
                                      EXCEPT !.count_after = settings[u]]]
                           /\ groq_rate_limits' =
                                  [groq_rate_limits EXCEPT
                                      !.request_times = request_times]
                      ELSE IF time_since_last < Secs(MinInterval)
                      THEN /\ q' = [q EXCEPT ![s] =
                                  [looked EXCEPT !.pc = "rl_sleep",
                                      !.wake = now + Secs(MinInterval)
                                                   - time_since_last]]
                           /\ groq_rate_limits' =
                                  [groq_rate_limits EXCEPT
                                      !.request_times = request_times]
                      ELSE /\ q' = [q EXCEPT ![s] =
                                  [looked EXCEPT !.pc = "embedding"]]
                           /\ groq_rate_limits' =
                                  [last_request_time |-> now,
                                   request_times |-> Append(request_times, now)]
    /\ q_arrivals' = q_arrivals + 1
    /\ trial_passed' =
           IF \/ ~direct /\ is_rate_limited(user_requests, groq_requests, u,
                                             "query", now).limited
              \/ TrialEnded(QueryCount(user_settings, u))
           THEN trial_passed
           ELSE [trial_passed EXCEPT ![u] = @ + 1]
    /\ UNCHANGED <<now, conversation_context, chat_history, llm_call_times>>
    /\ QFrame

\* _apply_groq_rate_limit after its sleep: now = time.time(); record it
WakeRateLimit(s) ==
    /\ q[s].pc = "rl_sleep"
    /\ now >= q[s].wake
    /\ groq_rate_limits' =
           [last_request_time |-> now,
            request_times |-> Append(groq_rate_limits.request_times, now)]
    /\ q' = [q EXCEPT ![s].pc = "embedding"]
    /\ UNCHANGED <<now, user_requests, groq_requests, user_settings,
                   conversation_context, chat_history, llm_call_times,
                   q_arrivals, trial_passed>>
    /\ QFrame

\* get_embedding returns, search_similar_chunks raises: ExternalServiceError
SearchFails(s) ==
    /\ q[s].pc = "embedding"
    /\ q' = [q EXCEPT ![s] =
           RaisedWith([q[s] EXCEPT !.calls = @ \cup {"embedding", "search"}],
                      "ExternalServiceError", SearchMessage)]
    /\ user_settings' = SettingsAfterRaise(q[s], user_settings)
    /\ UNCHANGED <<now, user_requests, groq_requests, groq_rate_limits,
                   conversation_context, chat_history,
                   llm_call_times, q_arrivals, trial_passed>>
    /\ QFrame

\* get_embedding has returned vector; search, filter, cut, build the
\* context, and the first llm.complete call is handed to the executor
SearchWith(s, found, vector) ==
    /\ q[s].pc = "embedding"
    /\ LET searched == [q[s] EXCEPT !.calls = @ \cup {"embedding", "search"},
                                    !.embedding = vector]
           filtered_chunks == FilterChunks(found)
           passed == FirstChunks(filtered_chunks)
       IN  IF filtered_chunks = <<>>
           THEN /\ q' = [q EXCEPT ![s] =
                       Returned(searched, "no_information", user_settings)]
                /\ user_settings' = SettingsAfterReturn(searched, user_settings)
                /\ UNCHANGED llm_call_times
           ELSE /\ q' = [q EXCEPT ![s] =
                       [searched EXCEPT !.pc = "llm", !.chunks = passed,
                                        !.attempt = 0,
                                        !.retry_delay = Secs(RetryDelay),
                                        !.calls = @ \cup {"llm"},
                                        !.llm_calls = 1]]
                /\ llm_call_times' = Append(llm_call_times, now)
                /\ UNCHANGED user_settings
    /\ UNCHANGED <<now, user_requests, groq_requests, groq_rate_limits,
                   conversation_context, chat_history, q_arrivals, trial_passed>>
    /\ QFrame

\* the model loads and encodes the question: get_embedding returns its
\* vector
EmbeddingReturns(s, found) == SearchWith(s, found, "encoded")

\* loading the model or encoding the question raises inside
\* get_embeddings_batch, which catches the exception and returns a vector
\* of 0.1s: get_embedding returns it and the query goes on
EmbeddingFails(s, found) == SearchWith(s, found, "placeholder")

\* source_files: the set of chunk.get("metadata", {}).get("source", "Unknown")
source_files(chunks) ==
    {Get(Get(chunks[i], "metadata", <<>>), "source", "Unknown") :
        i \in 1..Len(chunks)}

\* A failure to save that ends the query
HistoryNotSavedRaises(kind) == "ExternalServiceError"

\* save_chat_history raises: except Exception: logger.warning(...), and the
\* return statement is reached with the result it would have had
HistoryNotSaved(kind) == kind

\* llm.complete returns an answer: memory update, chat history (a failure
\* to save is logged), result, counter increment
LLMAnswers(s, saved) ==
    /\ q[s].pc = "llm"
    /\ conversation_context' =
           update_conversation_context(conversation_context, q[s].user,
                                       q[s].question, "answer")
    /\ chat_history' =
           IF saved
           THEN Append(chat_history, [user_id |-> q[s].user,
                                      question |-> q[s].question,
                                      answer |-> "answer"])
           ELSE chat_history
    /\ q' = [q EXCEPT ![s] =
           Returned([q[s] EXCEPT !.answer = "answer",
                                 !.calls = @ \cup {"history"},
                                 !.source_files = source_files(q[s].chunks)],
                    IF saved THEN "success" ELSE HistoryNotSaved("success"),
                    user_settings)]
    /\ user_settings' = SettingsAfterReturn(q[s], user_settings)
    /\ UNCHANGED <<now, user_requests, groq_requests, groq_rate_limits,
                   llm_call_times, q_arrivals, trial_passed>>
    /\ QFrame

\* llm.complete raises: retry after a sleep, or give up
LLMFails(s, outcome) ==
    /\ q[s].pc = "llm"
    /\ LET failed == [q[s] EXCEPT !.failures = Append(@, outcome)]
       IN  q' = [q EXCEPT ![s] =
               IF outcome = "rate_limit"
               THEN IF MayRetry(q[s].attempt)
                    THEN [failed EXCEPT !.pc = "backoff",
                                        !.wake = now + q[s].retry_delay,
                                        !.retry_delay = 2 * q[s].retry_delay,
                                        !.attempt = q[s].attempt + 1]
                    ELSE RaisedWith(failed, "RateLimitError",
                                    LLMRateLimitMessage)
               ELSE IF outcome = "timeout"
               THEN IF MayRetry(q[s].attempt)
                    THEN [failed EXCEPT !.pc = "backoff",
                                        !.wake = now + q[s].retry_delay,
                                        !.attempt = q[s].attempt + 1]
                    ELSE RaisedWith(failed, "ExternalServiceError",
                                    LLMTimeoutMessage)
               ELSE RaisedWith(failed, "ExternalServiceError",
                               LLMErrorMessage)]
    /\ user_settings' =
           IF outcome \in {"rate_limit", "timeout"} /\ MayRetry(q[s].attempt)
           THEN user_settings
           ELSE SettingsAfterRaise(q[s], user_settings)
    /\ UNCHANGED <<now, user_requests, groq_requests, groq_rate_limits,
                   conversation_context, chat_history,
                   llm_call_times, q_arrivals, trial_passed>>
    /\ QFrame

\* the sleep before a retry ends: the next llm.complete call is made
WakeBackoff(s) ==
    /\ q[s].pc = "backoff"
    /\ now >= q[s].wake
    /\ q' = [q EXCEPT ![s].pc = "llm", ![s].llm_calls = @ + 1]
    /\ llm_call_times' = Append(llm_call_times, now)
    /\ UNCHANGED <<now, user_requests, groq_requests, user_settings,
                   groq_rate_limits, conversation_context, chat_history,
                   q_arrivals, trial_passed>>
    /\ QFrame

\* the response is sent; the slot is free for the next request
Deliver(s) ==
    /\ q[s].pc = "done"
    /\ q' = [q EXCEPT ![s] = IdleSlot]
    /\ UNCHANGED <<now, user_requests, groq_requests, user_settings,
                   groq_rate_limits, conversation_context, chat_history,
                   llm_call_times, q_arrivals, trial_passed>>
    /\ QFrame

\* no request is between its arrival and its response
NoneInProgress == \A s \in Slots : q[s].pc \in {"idle", "done"}

Sleeping == {s \in Slots : q[s].pc \in {"rl_sleep", "backoff"}}

\* time passes until the next sleeper is due
AdvanceToWake ==
    /\ Sleeping # {}
    /\ \A s \in Sleeping : q[s].wake > now
    /\ now' = CHOOSE t \in {q[s].wake : s \in Sleeping} :
                  \A s \in Sleeping : t <= q[s].wake
    /\ UNCHANGED <<user_requests, groq_requests>>
    /\ UNCHANGED qVars
    /\ QFrame

\* Requests of any kind, one after another, any outcome of the
\* collaborators
QueryNext ==
    \/ \E s \in Slots, u \in Users, question \in Questions, direct \in BOOLEAN :
           /\ q_arrivals < MaxQueries
           /\ NoneInProgress
           /\ Arrive(s, u, question, direct)
    \/ \E s \in Slots : WakeRateLimit(s)
    \/ \E s \in Slots, found \in SearchOutcomes : EmbeddingFails(s, found)
    \/ \E s \in Slots : SearchFails(s)
    \/ \E s \in Slots, found \in SearchOutcomes : EmbeddingReturns(s, found)
    \/ \E s \in Slots, saved \in BOOLEAN : LLMAnswers(s, saved)
    \/ \E s \in Slots, outcome \in LLMOutcomes \ {"ok"} : LLMFails(s, outcome)
    \/ \E s \in Slots : WakeBackoff(s)
    \/ \E s \in Slots : Deliver(s)
    \/ AdvanceToWake

\* llm.complete comes back, with an answer or an exception
LLMResponds(s) ==
    \/ \E saved \in BOOLEAN : LLMAnswers(s, saved)
    \/ \E outcome \in LLMOutcomes \ {"ok"} : LLMFails(s, outcome)

\* the chunks every search of the retry runs returns
RetryFound ==
    <<Scored(chunk_record("d1", 1), SimilarityThreshold + 2),
      Scored(chunk_record("d1", 0), SimilarityThreshold + 1)>>

\* query_documents called with answerable questions of u1, one call after
\* another, each one reaching the answering service, which may answer or fail in any way at every call
RetryNext ==
    \/ \E s \in Slots :
           /\ q_arrivals < MaxQueries
           /\ NoneInProgress
           /\ Arrive(s, "u1", "valid", TRUE)
    \/ \E s \in Slots : WakeRateLimit(s)
    \/ \E s \in Slots : EmbeddingReturns(s, RetryFound)
    \/ \E s \in Slots, saved \in BOOLEAN : LLMAnswers(s, saved)
    \/ \E s \in Slots, outcome \in LLMOutcomes \ {"ok"} : LLMFails(s, outcome)
    \/ \E s \in Slots : WakeBackoff(s)
    \/ \E s \in Slots : Deliver(s)
    \/ AdvanceToWake

\* The sender of the next question: u1 up to its per-user limit, then u2
BurstUser == IF q_arrivals < QueryLimit THEN "u1" ELSE "u2"

\* Answerable questions arrive at the router one after another while the
\* answering service rejects every call with a rate-limit error
GroqNext ==
    \/ q_arrivals < BurstQueries /\ Arrive(1, BurstUser, "valid", FALSE)
    \/ WakeRateLimit(1)
    \/ \E found \in SearchOutcomes : EmbeddingReturns(1, found)
    \/ LLMFails(1, "rate_limit")
    \/ WakeBackoff(1)
    \/ Deliver(1)
    \/ AdvanceToWake

(***************************************************************************)
(* services/query_service.py : conversation memory                        *)
(* _update_conversation_context and clear_conversation_context run on the *)
(* event loop without suspending: each is one step.                       *)
(***************************************************************************)
MemInit ==
    /\ exchanges = [u \in Users |-> <<>>]
    /\ mem_ops = 0

\* A clear that empties every user's memory
clear_all_conversation_context(cc, u) == [v \in Users |-> <<>>]

\* clear_conversation_context
clear_conversation_context(cc, u) == [cc EXCEPT ![u] = <<>>]

\* a successful answer for user u: the n-th operation asks question n
MemoryUpdate(u, answer) ==
    /\ mem_ops < MaxMemoryOps
    /\ conversation_context' =
           update_conversation_context(conversation_context, u,
                                       mem_ops + 1, answer)
    /\ exchanges' = [exchanges EXCEPT ![u] =
           Append(@, [question |-> mem_ops + 1, answer |-> answer])]
    /\ mem_ops' = mem_ops + 1
    /\ MemFrame

\* POST /query/clear-context/{user_id}
ClearContext(u) ==
    /\ mem_ops < MaxMemoryOps
    /\ conversation_context' =
           clear_conversation_context(conversation_context, u)
    /\ exchanges' = [exchanges EXCEPT ![u] = <<>>]
    /\ mem_ops' = mem_ops + 1
    /\ MemFrame

MemoryNext ==
    \/ \E u \in Users, answer \in Answers : MemoryUpdate(u, answer)
    \/ \E u \in Users : ClearContext(u)

(***************************************************************************)
(* services/enhanced_chunking.py : EnhancedChunking                       *)
(* A string is modelled by its structure: a sequence of paragraphs        *)
(* separated by a blank line, a paragraph being sentences each ended by a *)
(* full stop and separated by one space. A sentence has a number of       *)
(* characters and of words, a number of those characters that are         *)
(* repeated spaces, and may be glued to the full stop before it (no       *)
(* space, as in a file name: the two then share a word).                  *)
(***************************************************************************)
Sentence(id, chars, words, spaces) ==
    [id |-> id, prefix |-> "", chars |-> chars, words |-> words,
     spaces |-> spaces, glued |-> FALSE]

RECURSIVE SumOver(_, _)
SumOver(f, n) == IF n = 0 THEN 0 ELSE f[n] + SumOver(f, n - 1)

\* len(paragraph)
ParagraphLen(p) ==
    SumOver([i \in 1..Len(p) |->
                p[i].chars + 1 + IF i > 1 /\ ~p[i].glued THEN 1 ELSE 0],
            Len(p))

\* len(text)
StrLen(paras) ==
    IF paras = <<>> THEN 0
    ELSE SumOver([i \in 1..Len(paras) |-> ParagraphLen(paras[i])], Len(paras))
         + 2 * (Len(paras) - 1)

RECURSIVE Flatten(_)
Flatten(paras) ==
    IF paras = <<>> THEN <<>> ELSE Head(paras) \o Flatten(Tail(paras))

\* len(text.split())
WordCount(paras) ==
    LET all == Flatten(paras)
    IN  SumOver([i \in 1..Len(all) |->
                    all[i].words - IF all[i].glued THEN 1 ELSE 0], Len(all))

\* the size tiers of chunk_text: large, medium and small documents
LargeText == 1000000
MediumText == 100000
LargeTier == [chunk_size |-> 1200, chunk_overlap |-> 200]
MediumTier == [chunk_size |-> 1000, chunk_overlap |-> 150]
SmallTier == [chunk_size |-> 800, chunk_overlap |-> 100]

SizeTier(text_length) ==
    IF text_length > LargeText THEN LargeTier
    ELSE IF text_length > MediumText THEN MediumTier
    ELSE SmallTier

\* The header of a source named a.txt or a.pdf: "DOCUMENT: a" and, glued
\* to its full stop, the 13 characters "txt\nCONTENT:\n" before the first
\* sentence of the text (before nothing, the last line feed is stripped
\* and no full stop follows)
HeaderSentence == [id |-> "DOCUMENT: a", prefix |-> "", chars |-> 11,
                   words |-> 2, spaces |-> 0, glued |-> FALSE]
HeaderRest(source) == [prefix |-> source, chars |-> 13, words |-> 3]

\* re.sub(r' +', ' ', text): the repeated spaces go
CollapseSpaces(p) ==
    [i \in 1..Len(p) |-> [p[i] EXCEPT !.chars = @ - p[i].spaces,
                                      !.spaces = 0]]

\* _clean_and_structure_text: f"DOCUMENT: {source}\nCONTENT:\n{text}"
clean_and_structure_text(paras, source) ==
    LET cleaned == [k \in 1..Len(paras) |-> CollapseSpaces(paras[k])]
        first == cleaned[1][1]
        headed == [first EXCEPT !.prefix = HeaderRest(source).prefix,
                                !.chars = @ + HeaderRest(source).chars,
                                !.words = @ + HeaderRest(source).words,
                                !.glued = TRUE]
    IN  IF source = "" THEN cleaned
        ELSE IF cleaned = <<>>
        THEN <<<<HeaderSentence,
                 [id |-> "CONTENT:", prefix |-> source,
                  chars |-> HeaderRest(source).chars - 2,
                  words |-> HeaderRest(source).words - 1, spaces |-> 0,
                  glued |-> TRUE]>>>>
        ELSE <<<<HeaderSentence, headed>> \o Tail(cleaned[1])>>
             \o Tail(cleaned)

\* the loop of _get_overlap_text over reversed(sentences): the sentences
\* kept, given those still to visit (last one next) and those taken
RECURSIVE OverlapSentences(_, _, _, _)
OverlapSentences(rest, taken, current_length, overlap_size) ==
    IF rest = <<>> THEN taken
    ELSE LET sentence == rest[Len(rest)]
         IN  IF current_length + sentence.chars > overlap_size /\ taken # <<>>
             THEN taken
             ELSE OverlapSentences(SubSeq(rest, 1, Len(rest) - 1),
                                   <<[sentence EXCEPT !.glued = FALSE]>> \o taken,
                                   current_length + sentence.chars,
                                   overlap_size)

\* _get_overlap_text: the whole text when it has few words, otherwise its
\* last sentences joined by '. '
get_overlap_text(paras, overlap_size) ==
    IF WordCount(paras) <= overlap_size \div 5
    THEN paras
    ELSE <<OverlapSentences(Flatten(paras), <<>>, 0, overlap_size)>>

\* the loop of _semantic_chunking: the chunks after the paragraphs left
RECURSIVE SemanticLoop(_, _, _, _, _)
SemanticLoop(paragraphs, chunks, current_chunk, metadata, tier) ==
    IF paragraphs = <<>>
    THEN IF current_chunk # <<>>
         THEN Append(chunks, [text |-> current_chunk, metadata |-> metadata])
         ELSE chunks
    ELSE LET paragraph == Head(paragraphs)
         IN  IF /\ StrLen(current_chunk) + ParagraphLen(paragraph)
                        > tier.chunk_size
                /\ current_chunk # <<>>
             THEN SemanticLoop(Tail(paragraphs),
                      Append(chunks, [text |-> current_chunk,
                                      metadata |-> metadata]),
                      Append(get_overlap_text(current_chunk,
                                              tier.chunk_overlap), paragraph),
                      metadata, tier)
             ELSE SemanticLoop(Tail(paragraphs), chunks,
                               Append(current_chunk, paragraph),
                               metadata, tier)

semantic_chunking(paras, metadata, tier) ==
    SemanticLoop(paras, <<>>, <<>>, metadata, tier)

\* chunk_text(text, metadata)
chunk_text(paras, metadata) ==
    LET cleaned_text == clean_and_structure_text(paras, metadata.source)
    IN  semantic_chunking(cleaned_text, metadata, SizeTier(StrLen(cleaned_text)))

\* The paragraphs of the texts: one sentence of 40 characters with its
\* full stop; two
\* sentences, one with repeated spaces; one sentence longer than a small
\* chunk; a few very long words; one sentence longer than a medium text
Paragraphs ==
    {<<Sentence("s1", 39, 8, 0)>>,
     <<Sentence("s2", 300, 50, 0), Sentence("s3", 310, 50, 10)>>,
     <<Sentence("s4", 900, 150, 0)>>,
     <<Sentence("s5", 700, 10, 0)>>,
     <<Sentence("s6", MediumText + 1, 20000, 0)>>}

\* The texts of at most n paragraphs
RECURSIVE TextsOf(_)
TextsOf(n) ==
    IF n = 0 THEN {<<>>}
    ELSE TextsOf(n - 1) \cup
         {Append(t, p) : t \in {x \in TextsOf(n - 1) : Len(x) = n - 1},
                         p \in Paragraphs}

Sources == {"", "a.txt"}

ChInit ==
    /\ ch_text = [text |-> <<>>, metadata |-> [source |-> ""]]
    /\ ch_chunks = <<>>
    /\ ch_pc = "call"

\* chunks = enhanced_chunking.chunk_text(text, metadata)
ChunkText ==
    /\ ch_pc = "call"
    /\ ch_pc' = "done"
    /\ ch_chunks' = chunk_text(ch_text.text, ch_text.metadata)
    /\ UNCHANGED ch_text
    /\ ChFrame

ChunkNext == ChunkText

(***************************************************************************)
(* services/file_safety_service.py : validate_file_safety                 *)
(* A file is what the checks can see of it: the extension of its name,    *)
(* its size, its first bytes, what libmagic reports for it, whether its   *)
(* header can be read, and what the deep check of its type runs into.     *)
(***************************************************************************)
Extensions == {".pdf", ".txt", ".exe"}

\* the extensions of allowed_mime_types, among those above
AllowedExtensions == {".pdf", ".txt"}

\* allowed_mime_types, for the extensions above
AllowedMimeTypes ==
    [m \in {"application/pdf", "text/plain"} |->
        IF m = "application/pdf" THEN {".pdf"} ELSE {".txt"}]

\* What the deep check of a file runs into: nothing, a risk it reports, an
\* exception in its own code, an exception inside the PDF JavaScript scan
DeepOutcomes == {"safe", "unsafe", "raises", "js_scan_raises"}

\* The uploads: an empty file has no header; libmagic reports an
\* executable header as an executable unless a PDF follows it, a PDF header
\* as a PDF, text as text, or fails; only a PDF goes through the
\* JavaScript scan
Files ==
    {f \in [ext : Extensions,
            size : {"empty", "ok", "too_big"},
            header : {"none", "MZ", "%PDF", "text"},
            mime : {"inode/x-empty", "application/x-dosexec",
                    "application/pdf", "text/plain", "detector_raises"},
            signature_read : {"ok", "raises"},
            deep : DeepOutcomes] :
        /\ (f.size = "empty") <=> (f.header = "none")
        /\ f.header = "none" => f.mime \in {"inode/x-empty", "detector_raises"}
        /\ f.header = "MZ" => f.mime \in {"application/x-dosexec",
                                          "application/pdf", "detector_raises"}
        /\ f.header = "%PDF" => f.mime \in {"application/pdf", "detector_raises"}
        /\ f.header = "text" => f.mime \in {"text/plain", "detector_raises"}
        /\ f.deep = "js_scan_raises" => f.ext = ".pdf"}

is_extension_allowed(extension) == extension \in AllowedExtensions

\* _get_mime_type: a failure of the detector gives application/octet-stream
get_mime_type(f) ==
    IF f.mime = "detector_raises" THEN "application/octet-stream" ELSE f.mime

is_mime_type_allowed(mime_type, file_extension) ==
    /\ mime_type \in DOMAIN AllowedMimeTypes
    /\ file_extension \in AllowedMimeTypes[mime_type]

\* _check_file_signature
check_file_signature(f) ==
    IF f.signature_read = "raises"
    THEN [accepted |-> FALSE, reason |-> "File signature check failed"]
    ELSE IF f.header = "MZ" /\ f.ext \notin {".exe", ".dll"}
    THEN [accepted |-> FALSE,
          reason |-> "File appears to be an executable disguised as a document"]
    ELSE [accepted |-> TRUE, reason |-> "File signature appears safe"]

\* _validate_pdf_safety: an exception of the JavaScript scan is logged and
\* the checks go on
validate_pdf_safety(f) ==
    CASE f.deep = "unsafe" ->
             [accepted |-> FALSE, reason |-> "PDF security risk"]
      [] f.deep = "raises" ->
             [accepted |-> FALSE, reason |-> "PDF validation failed"]
      [] OTHER ->
             [accepted |-> TRUE, reason |-> "PDF appears safe"]

\* _validate_text_safety
validate_text_safety(f) ==
    CASE f.deep = "unsafe" ->
             [accepted |-> FALSE, reason |-> "Text file security risk"]
      [] f.deep = "raises" ->
             [accepted |-> FALSE, reason |-> "Text file validation failed"]
      [] OTHER ->
             [accepted |-> TRUE, reason |-> "Text file appears safe"]

\* validate_file_safety: steps 1 to 6
validate_file_safety(f) ==
    IF ~is_extension_allowed(f.ext)
    THEN [accepted |-> FALSE, reason |-> "File type is not supported"]
    ELSE IF f.size = "too_big"
    THEN [accepted |-> FALSE, reason |-> "File size exceeds limit"]
    ELSE IF f.size = "empty"
    THEN [accepted |-> FALSE, reason |-> "File is empty"]
    ELSE IF ~is_mime_type_allowed(get_mime_type(f), f.ext)
    THEN [accepted |-> FALSE, reason |-> "File type mismatch"]
    ELSE IF ~check_file_signature(f).accepted
    THEN check_file_signature(f)
    ELSE IF f.ext = ".pdf"
    THEN validate_pdf_safety(f)
    ELSE validate_text_safety(f)

(***************************************************************************)
(* routers/ingest.py, services/fast_ingest_service.py : one ingestion     *)
(* The code between two awaits that suspend is one step. An ingestion     *)
(* arrives at the router (synchronous path) or is handed to               *)
(* ingest_file_background, which leaves the pipeline to a queue worker.   *)
(***************************************************************************)
\* self.max_files = 5, the default of user_settings.max_files
MaxFiles == 5

IngestIdle ==
    [pc |-> "idle", mode |-> "none", id |-> 0, user |-> "none",
     file |-> [ext |-> "none"], safety |-> [accepted |-> FALSE, reason |-> "none"],
     calls |-> {}, temps |-> {}, outcome |-> "none", embeddings |-> "none",
     text |-> <<>>, chunks |-> <<>>, document_id |-> 0, batch_num |-> 0,
     successful_chunks |-> 0, vectors |-> <<>>, events |-> <<>>,
     docs_before |-> <<>>,
     response |-> [status_code |-> 0, body |-> {}]]

IngInit ==
    /\ ing = IngestIdle
    /\ disk = {}
    /\ ing_arrivals = 0
    /\ document_chunks = <<>>

\* tempfile.NamedTemporaryFile(delete=False, ...): a new file on disk
SafetyCopy(req) == <<req.id, "safety_copy">>
ProcessingCopy(req) == <<req.id, "processing_copy">>

\* A finally clause that leaves the processing copy on disk
KeepProcessingCopy(d, req) == d

\* _ingest_file_sync_internal, finally: os.unlink(temp_path)
UnlinkProcessingCopy(d, req) == d \ {ProcessingCopy(req)}

\* the router's finally: os.unlink(temp_path)
UnlinkSafetyCopy(d, req) == d \ {SafetyCopy(req)}

\* the name the upload is stored under
UploadName(f) == IF f.ext = ".pdf" THEN "a.pdf" ELSE "a.txt"

\* What process_file reads in the file: a text file holds one sentence of
\* 40 characters, a PDF two paragraphs
FileText(f) ==
    IF f.ext = ".txt"
    THEN <<<<Sentence("s1", 39, 8, 0)>>>>
    ELSE <<<<Sentence("s2", 300, 50, 0), Sentence("s3", 310, 50, 10)>>,
           <<Sentence("s4", 900, 150, 0)>>>>

\* create_document on its own: deactivate the rows of the name, insert
create_document(docs, u, name) ==
    Append(Deactivate(docs, u, name),
           [id |-> Len(docs) + 1, user_id |-> u, file_name |-> name,
            version |-> NewVersion(docs, u, name), is_active |-> TRUE])

\* the router's except Exception:
\* HTTPException(500, f"Error processing file: {str(e)}")
IngestRouterFailure(message) ==
    [status_code |-> 500, body |-> {"Error processing file"} \cup message]

\* The pipeline has raised: the finally clauses run, and on the synchronous
\* path the router answers
IngestFailed(req, kind, message) ==
    [req EXCEPT !.pc = "done", !.outcome = kind,
                !.response = IF req.mode = "sync"
                             THEN IngestRouterFailure(message)
                             ELSE @]

\* The pipeline has returned its result
IngestSucceeded(req) ==
    [req EXCEPT !.pc = "done", !.outcome = "success",
                !.response = IF req.mode = "sync"
                             THEN [status_code |-> 200,
                                   body |-> {"File ingested successfully"}]
                             ELSE @]

\* The temporary files left when the pipeline of req is over
DiskAfterPipeline(d, req) ==
    IF req.mode = "sync"
    THEN UnlinkSafetyCopy(UnlinkProcessingCopy(d, req), req)
    ELSE UnlinkProcessingCopy(d, req)

\* POST /ingest up to its first suspension: rate limit, safety copy,
\* validate_file_safety, ingest_file (file limit, processing copy), and
\* _ingest_file_sync_internal up to the upload handed to the executor
IngestArrive(u, f, limit_check) ==
    /\ ing.pc = "idle"
    /\ ing_arrivals < MaxIngests
    /\ ing_arrivals' = ing_arrivals + 1
    /\ LET r == is_rate_limited(user_requests, groq_requests, u,
                                "file_operations", now)
           req == [IngestIdle EXCEPT !.mode = "sync", !.id = ing_arrivals + 1,
                                     !.user = u, !.file = f]
           staged == [req EXCEPT !.temps = {SafetyCopy(req)},
                                 !.safety = validate_file_safety(f)]
           settings == IF user_settings[u] = NoSettings
                       THEN [user_settings EXCEPT ![u] = 0]
                       ELSE user_settings
           checked == [staged EXCEPT !.calls = {"settings", "documents"}]
           copied == [checked EXCEPT
                         !.temps = @ \cup {ProcessingCopy(req)},
                         !.calls = @ \cup {"upload"}]
       IN  /\ user_requests' = r.user_requests
           /\ groq_requests' = r.groq_requests
           /\ IF r.limited
              THEN /\ ing' = [req EXCEPT !.pc = "done",
                                  !.outcome = "HTTP429",
                                  !.response = RouterLimited(r.message)]
                   /\ UNCHANGED <<disk, user_settings>>
              ELSE IF ~staged.safety.accepted
              THEN /\ ing' = [staged EXCEPT !.pc = "done",
                                  !.outcome = "rejected",
                                  !.response =
                                      [status_code |-> 400,
                                       body |-> {"Security check failed",
                                                 staged.safety.reason}]]
                   /\ disk' = UnlinkSafetyCopy(disk \cup {SafetyCopy(req)}, req)
                   /\ UNCHANGED user_settings
              ELSE IF limit_check = "raises"
              THEN /\ ing' = IngestFailed([staged EXCEPT !.calls = {"settings"}],
                                  "ValidationError",
                                  {"File limit check failed", "collaborator_text"})
                   /\ disk' = UnlinkSafetyCopy(disk \cup {SafetyCopy(req)}, req)
                   /\ UNCHANGED user_settings
              ELSE IF Cardinality(get_active_documents(documents, u)) >= MaxFiles
              THEN /\ ing' = IngestFailed(checked, "ValidationError",
                                          {"File limit reached"})
                   /\ disk' = UnlinkSafetyCopy(disk \cup {SafetyCopy(req)}, req)
                   /\ user_settings' = settings
              ELSE /\ ing' = [copied EXCEPT !.pc = "upload"]
                   /\ disk' = disk \cup {SafetyCopy(req), ProcessingCopy(req)}
                   /\ user_settings' = settings
    /\ UNCHANGED documents
    /\ UNCHANGED document_chunks
    /\ IngFrame

\* ingest_file_background: processing copy, submit_task, return
IngestBackground(u, f) ==
    /\ ing.pc = "idle"
    /\ ing_arrivals < MaxIngests
    /\ ing_arrivals' = ing_arrivals + 1
    /\ LET req == [IngestIdle EXCEPT !.mode = "background",
                                     !.id = ing_arrivals + 1,
                                     !.user = u, !.file = f]
       IN  /\ ing' = [req EXCEPT !.pc = "queued",
                                 !.temps = {ProcessingCopy(req)},
                                 !.response = [status_code |-> 200,
                                               body |-> {"processing"}]]
           /\ disk' = disk \cup {ProcessingCopy(req)}
    /\ UNCHANGED <<user_requests, groq_requests, user_settings, documents>>
    /\ UNCHANGED document_chunks
    /\ IngFrame

\* a queue worker takes the task: _process_file_sync runs the pipeline up
\* to the upload
IngestWorkerStarts ==
    /\ ing.pc = "queued"
    /\ ing' = [ing EXCEPT !.pc = "upload", !.calls = @ \cup {"upload"}]
    /\ UNCHANGED <<disk, ing_arrivals, user_requests, groq_requests,
                   user_settings, documents>>
    /\ UNCHANGED document_chunks
    /\ IngFrame

\* supabase_client.upload_file comes back; process_file is handed over
IngestUploadReturns(ok) ==
    /\ ing.pc = "upload"
    /\ IF ok
       THEN /\ ing' = [ing EXCEPT !.pc = "extract", !.calls = @ \cup {"extract"}]
            /\ UNCHANGED disk
       ELSE /\ ing' = IngestFailed(ing, "ExternalServiceError",
                          {"File storage upload failed", "collaborator_text"})
            /\ disk' = DiskAfterPipeline(disk, ing)
    /\ UNCHANGED <<ing_arrivals, user_requests, groq_requests, user_settings,
                   documents>>
    /\ UNCHANGED document_chunks
    /\ IngFrame

\* process_file comes back with the text, with an error, or raises;
\* create_document is handed over
IngestExtractReturns(outcome) ==
    /\ ing.pc = "extract"
    /\ IF outcome = "ok"
       THEN /\ ing' = [ing EXCEPT !.pc = "create_document",
                                  !.text = FileText(ing.file),
                                  !.calls = @ \cup {"create_document"}]
            /\ UNCHANGED disk
       ELSE /\ ing' = IngestFailed(ing, "ExternalServiceError",
                          IF outcome = "error"
                          THEN {"File processing error", "File processing failed"}
                          ELSE {"File processing error", "collaborator_text"})
            /\ disk' = DiskAfterPipeline(disk, ing)
    /\ UNCHANGED <<ing_arrivals, user_requests, groq_requests, user_settings,
                   documents>>
    /\ UNCHANGED document_chunks
    /\ IngFrame

\* _process_chunks_optimized: batch_size = 300
batch_size == 300

\* batch_chunks = chunks[batch_num:batch_num + batch_size]
BatchOf(chunks, batch_num) ==
    SubSeq(chunks, batch_num + 1,
           IF batch_num + batch_size < Len(chunks)
           THEN batch_num + batch_size
           ELSE Len(chunks))

\* What get_embeddings_batch hands back for the texts of a batch: one
\* encoded vector per text, one vector of 0.1s per text, or, for a service
\* that loses a text, one vector fewer than texts
Vectors(batch_chunks, kind) ==
    [i \in 1..(IF kind = "short" THEN Len(batch_chunks) - 1
               ELSE Len(batch_chunks)) |->
        IF kind = "placeholder" THEN "placeholder" ELSE "encoded"]

\* Records whose index starts again at 0 in every batch
chunk_records_per_batch(document_id, user_id, batch_chunks, embeddings, batch_num) ==
    [i \in 1..(IF Len(embeddings) < Len(batch_chunks)
               THEN Len(embeddings) ELSE Len(batch_chunks)) |->
        [document_id |-> document_id, user_id |-> user_id,
         chunk_text |-> batch_chunks[i].text, embedding |-> embeddings[i],
         chunk_index |-> i - 1, metadata |-> batch_chunks[i].metadata]]

\* for i, (chunk, embedding) in enumerate(zip(batch_chunks, embeddings)):
\* zip stops at the shorter list; chunk_index = batch_num + i, i from 0
chunk_records(document_id, user_id, batch_chunks, embeddings, batch_num) ==
    [i \in 1..(IF Len(embeddings) < Len(batch_chunks)
               THEN Len(embeddings) ELSE Len(batch_chunks)) |->
        [document_id |-> document_id, user_id |-> user_id,
         chunk_text |-> batch_chunks[i].text, embedding |-> embeddings[i],
         chunk_index |-> batch_num + (i - 1),
         metadata |-> batch_chunks[i].metadata]]

\* A loop that ends without comparing the counts
IncompleteIgnored(successful_chunks, chunks) == FALSE

\* if successful_chunks < len(chunks)
Incomplete(successful_chunks, chunks) == successful_chunks < Len(chunks)

\* _process_chunks_optimized is entered: "if not chunks: return", else the
\* first get_embeddings_batch call is awaited
StartChunkProcessing(req) ==
    IF req.chunks = <<>>
    THEN IngestSucceeded(req)
    ELSE [req EXCEPT !.pc = "embed", !.batch_num = 0,
                     !.successful_chunks = 0,
                     !.calls = @ \cup {"embeddings"}]

\* create_document comes back; chunk_text; the first await of
\* _process_chunks_optimized (get_embeddings_batch)
IngestCreateReturns(ok, chunking_ok) ==
    /\ ing.pc = "create_document"
    /\ IF ~ok
       THEN /\ ing' = IngestFailed(ing, "ExternalServiceError",
                          {"Document record creation failed", "collaborator_text"})
            /\ disk' = DiskAfterPipeline(disk, ing)
            /\ UNCHANGED documents
       ELSE LET created == [ing EXCEPT !.document_id = Len(documents) + 1,
                                       !.docs_before = documents]
                chunked == StartChunkProcessing(
                               [created EXCEPT !.chunks =
                                   chunk_text(ing.text,
                                       [source |-> UploadName(ing.file)])])
            IN  /\ documents' = create_document(documents, ing.user,
                                                UploadName(ing.file))
                /\ IF ~chunking_ok
                   THEN /\ ing' = IngestFailed(created, "ExternalServiceError",
                                      {"Chunking failed", "collaborator_text"})
                        /\ disk' = DiskAfterPipeline(disk, ing)
                   ELSE /\ ing' = chunked
                        /\ disk' = IF chunked.pc = "done"
                                   THEN DiskAfterPipeline(disk, ing)
                                   ELSE disk
    /\ UNCHANGED <<ing_arrivals, user_requests, groq_requests, user_settings,
                   document_chunks>>
    /\ IngFrame

\* get_embeddings_batch comes back with the vectors of the batch (encoded
\* or, when the model failed, its vectors of 0.1s); the records of the
\* batch are built and insert_chunks is handed to the executor
IngestEmbedReturns(kind) ==
    /\ ing.pc = "embed"
    /\ ing' = [ing EXCEPT !.pc = "insert",
                          !.calls = @ \cup {"insert_chunks"},
                          !.embeddings = kind,
                          !.vectors = Vectors(BatchOf(ing.chunks, ing.batch_num),
                                              kind),
                          !.events = Append(@, <<"embed", ing.batch_num>>)]
    /\ UNCHANGED <<disk, ing_arrivals, user_requests, groq_requests,
                   user_settings, documents, document_chunks>>
    /\ IngFrame

\* insert_chunks comes back: it has stored the records of the batch, or it
\* raises after the retries of the store client; after the last batch the
\* counts are compared and the pipeline returns or raises
IngestInsertReturns(ok) ==
    /\ ing.pc = "insert"
    /\ LET records == chunk_records(ing.document_id, ing.user,
                                    BatchOf(ing.chunks, ing.batch_num),
                                    ing.vectors, ing.batch_num)
           inserted == [ing EXCEPT
                           !.successful_chunks = @ + Len(records),
                           !.events = Append(@, <<"inserted", ing.batch_num>>)]
       IN  IF ~ok
           THEN /\ records # <<>>
                /\ ing' = IngestFailed(
                       [ing EXCEPT !.events =
                           Append(@, <<"insert_failed", ing.batch_num>>)],
                       "ExternalServiceError",
                       {"Unexpected chunk processing error",
                        "Database insertion failed", "collaborator_text"})
                /\ disk' = DiskAfterPipeline(disk, ing)
                /\ UNCHANGED document_chunks
           ELSE /\ document_chunks' = document_chunks \o records
                /\ IF ing.batch_num + batch_size < Len(ing.chunks)
                   THEN /\ ing' = [inserted EXCEPT !.pc = "pause"]
                        /\ UNCHANGED disk
                   ELSE /\ ing' =
                            IF Incomplete(inserted.successful_chunks, ing.chunks)
                            THEN IngestFailed(inserted, "ExternalServiceError",
                                     {"Unexpected chunk processing error",
                                      "Incomplete processing"})
                            ELSE IngestSucceeded(inserted)
                        /\ disk' = DiskAfterPipeline(disk, ing)
    /\ UNCHANGED <<ing_arrivals, user_requests, groq_requests, user_settings,
                   documents>>
    /\ IngFrame

\* asyncio.sleep(0.1) between two batches ends: the next batch is taken and
\* its get_embeddings_batch call is awaited
IngestBatchPause ==
    /\ ing.pc = "pause"
    /\ ing' = [ing EXCEPT !.pc = "embed", !.batch_num = @ + batch_size]
    /\ UNCHANGED <<disk, ing_arrivals, user_requests, groq_requests,
                   user_settings, documents, document_chunks>>
    /\ IngFrame

\* delete_file: soft_delete_document marks every row of the name inactive
IngestDelete(u, name) ==
    /\ ing.pc = "idle"
    /\ ing_arrivals < MaxIngests
    /\ ing_arrivals' = ing_arrivals + 1
    /\ documents' = Deactivate(documents, u, name)
    /\ UNCHANGED <<ing, disk, user_requests, groq_requests, user_settings,
                   document_chunks>>
    /\ IngFrame

\* the response is sent, or the task result is stored
IngestDeliver ==
    /\ ing.pc = "done"
    /\ ing' = IngestIdle
    /\ UNCHANGED <<disk, ing_arrivals, user_requests, groq_requests,
                   user_settings, documents>>
    /\ UNCHANGED document_chunks
    /\ IngFrame

\* Ingestions of any file, one after another, on either path, with any
\* outcome of the collaborators
IngestNext ==
    \/ /\ ing.pc = "idle"
       /\ \E u \in Users, f \in Files, limit_check \in {"ok", "raises"} :
              IngestArrive(u, f, limit_check)
    \/ /\ ing.pc = "idle"
       /\ \E u \in Users, f \in Files : IngestBackground(u, f)
    \/ IngestWorkerStarts
    \/ \E ok \in BOOLEAN : IngestUploadReturns(ok)
    \/ \E outcome \in {"ok", "error", "raises"} : IngestExtractReturns(outcome)
    \/ \E ok \in BOOLEAN, chunking_ok \in BOOLEAN :
           IngestCreateReturns(ok, chunking_ok)
    \/ \E kind \in {"encoded", "placeholder"} : IngestEmbedReturns(kind)
    \/ \E ok \in BOOLEAN : IngestInsertReturns(ok)
    \/ \E u \in Users, name \in {"a.txt", "a.pdf", "b.txt"} :
           IngestDelete(u, name)
    \/ IngestDeliver

(***************************************************************************)
(* services/fast_embedding_service.py : FastEmbeddingService              *)
(* get_embeddings_batch runs on the event loop and hands                  *)
(* _ensure_model_loaded and _encode_batch_quality to the default          *)
(* executor, a pool of threads: calls in progress interleave at every     *)
(* step of those functions. A vector is modelled by its kind, the number  *)
(* of words of the text it encodes and its dimension.                     *)
(***************************************************************************)
Callers == 1..MaxCallers

\* self.dimension = 384
dimension == 384
\* the output dimension of sentence-transformers/all-MiniLM-L6-v2
EncoderDimension == 384
\* text.split()[:500]
WordLimit == 500

\* A text, by its number of words: one word, or one word over the limit
TextSizes == {1, WordLimit + 1}

\* The lists of at most n texts
RECURSIVE TextLists(_)
TextLists(n) ==
    IF n = 0 THEN {<<>>}
    ELSE TextLists(n - 1) \cup
         {Append(l, w) : l \in {x \in TextLists(n - 1) : Len(x) = n - 1},
                         w \in TextSizes}

\* ' '.join(text.split()[:500])
processed_text(text) == IF text > WordLimit THEN WordLimit ELSE text

\* the vector model.encode returns for one processed text
Encoded(text) == [kind |-> "encoded", words |-> text, dim |-> EncoderDimension]

\* [0.1] * self.dimension
Placeholder == [kind |-> "placeholder", words |-> 0, dim |-> dimension]

\* an encoder that returns the vectors in reverse order
encode_batch_reversed(texts) ==
    [i \in 1..Len(texts) |-> Encoded(texts[Len(texts) + 1 - i])]

\* _encode_batch_quality: one vector per text, in the order of the texts
encode_batch_quality(texts) == [i \in 1..Len(texts) |-> Encoded(texts[i])]

\* [[0.1] * self.dimension for _ in texts]
Placeholders(texts) == [i \in 1..Len(texts) |-> Placeholder]

IdleCaller == [pc |-> "idle", texts |-> <<>>, result |-> <<>>,
               path |-> "none"]

EmbInit ==
    /\ emb = [model |-> 0, model_loaded |-> FALSE, constructed |-> 0]
    /\ callers = [c \in Callers |-> IdleCaller]
    /\ emb_calls = 0

\* get_embeddings_batch(texts) is called (the calls in progress are
\* numbered from 1): an empty list is answered at once, otherwise
\* _ensure_model_loaded is handed to the executor
EmbCall(c, texts) ==
    /\ callers[c].pc = "idle"
    /\ \A d \in Callers : d < c => callers[d].pc # "idle"
    /\ emb_calls < MaxEmbedCalls
    /\ emb_calls' = emb_calls + 1
    /\ callers' = [callers EXCEPT ![c] =
           IF texts = <<>>
           THEN [pc |-> "done", texts |-> texts, result |-> <<>>,
                 path |-> "empty"]
           ELSE [pc |-> "ensure", texts |-> texts, result |-> <<>>,
                 path |-> "none"]]
    /\ UNCHANGED emb
    /\ EmbFrame

\* _ensure_model_loaded, on a pool thread: if self._model_loaded: return
EnsureCheck(c) ==
    /\ callers[c].pc = "ensure"
    /\ callers' = [callers EXCEPT ![c].pc =
           IF emb.model_loaded THEN "encode" ELSE "construct"]
    /\ UNCHANGED <<emb, emb_calls>>
    /\ EmbFrame

\* self._model = SentenceTransformer(self.model_name): a model is built,
\* or the constructor raises and get_embeddings_batch answers with
\* placeholders
EnsureConstruct(c, ok) ==
    /\ callers[c].pc = "construct"
    /\ IF ok
       THEN /\ emb' = [emb EXCEPT !.model = emb.constructed + 1,
                                  !.constructed = @ + 1]
            /\ callers' = [callers EXCEPT ![c].pc = "set_loaded"]
       ELSE /\ callers' = [callers EXCEPT ![c].pc = "done",
                               ![c].result = Placeholders(callers[c].texts),
                               ![c].path = "load_failed"]
            /\ UNCHANGED emb
    /\ UNCHANGED emb_calls
    /\ EmbFrame

\* self._model_loaded = True; the call goes on to the encoding
EnsureSetLoaded(c) ==
    /\ callers[c].pc = "set_loaded"
    /\ emb' = [emb EXCEPT !.model_loaded = TRUE]
    /\ callers' = [callers EXCEPT ![c].pc = "encode"]
    /\ UNCHANGED emb_calls
    /\ EmbFrame

\* _encode_batch_quality(processed_texts) comes back from the pool with
\* the vectors, or raises and get_embeddings_batch answers with
\* placeholders
EncodeBatch(c, ok) ==
    /\ callers[c].pc = "encode"
    /\ LET processed_texts == [i \in 1..Len(callers[c].texts) |->
                                  processed_text(callers[c].texts[i])]
       IN  callers' = [callers EXCEPT ![c].pc = "done",
               ![c].result = IF ok THEN encode_batch_quality(processed_texts)
                                   ELSE Placeholders(callers[c].texts),
               ![c].path = IF ok THEN "encoded" ELSE "encode_failed"]
    /\ UNCHANGED <<emb, emb_calls>>
    /\ EmbFrame

\* the caller takes the list get_embeddings_batch returned
EmbReturn(c) ==
    /\ callers[c].pc = "done"
    /\ callers' = [callers EXCEPT ![c] = IdleCaller]
    /\ UNCHANGED <<emb, emb_calls>>
    /\ EmbFrame

EmbedNext ==
    \/ \E c \in Callers, texts \in TextLists(MaxBatch) : EmbCall(c, texts)
    \/ \E c \in Callers : EnsureCheck(c)
    \/ \E c \in Callers, ok \in BOOLEAN : EnsureConstruct(c, ok)
    \/ \E c \in Callers : EnsureSetLoaded(c)
    \/ \E c \in Callers, ok \in BOOLEAN : EncodeBatch(c, ok)
    \/ \E c \in Callers : EmbReturn(c)

(***************************************************************************)
(* services/supabase_client.py : _direct_vector_search                    *)
(* The fallback of search_similar_chunks: the rows of the user's active   *)
(* documents in the table's order, each given a score by its rank.        *)
(***************************************************************************)
\* base_similarity = 0.8
BaseSimilarity == 80
\* i * 0.1
RankStep == 10
\* max(0.4, similarity)
MinSimilarity == 40

\* The documents of the rows a table query can return, at most n rows
RECURSIVE RowDocs(_)
RowDocs(n) ==
    IF n = 0 THEN {<<>>}
    ELSE RowDocs(n - 1) \cup
         {Append(l, d) : l \in {x \in RowDocs(n - 1) : Len(x) = n - 1},
                         d \in DocIds}

\* the rows themselves: row k is chunk k - 1 of its document
TableRows(docs) == [k \in 1..Len(docs) |-> chunk_record(docs[k], k - 1)]

FbInit == fb_rows = <<>>

\* similarity = max(0.4, base_similarity - (i * 0.1))
RankSimilarity(i) ==
    IF BaseSimilarity - i * RankStep > MinSimilarity
    THEN BaseSimilarity - i * RankStep
    ELSE MinSimilarity

\* for i, chunk in enumerate(result.data): chunk['similarity'] = similarity
direct_vector_search(rows) ==
    [k \in 1..Len(rows) |-> Scored(rows[k], RankSimilarity(k - 1))]

\* search_similar_chunks falls back to _direct_vector_search: the two
\* requests to the store succeed and the rows are scored, or one raises
\* and the result is empty
DirectVectorSearch(store_ok) ==
    /\ ret_pc = "search"
    /\ similar_chunks = <<>>
    /\ similar_chunks' = IF store_ok THEN direct_vector_search(fb_rows)
                                     ELSE <<>>
    /\ ret_pc' = "filter"
    /\ UNCHANGED <<context_chunks, rendered, sources, chunks_used>>
    /\ RetFrame

\* the query path takes the result: filter, cut, context
FilterFallback ==
    /\ ret_pc = "filter"
    /\ ret_pc' = "done"
    /\ LET filtered_chunks == FilterChunks(similar_chunks)
           passed == FirstChunks(filtered_chunks)
           built == build_cross_document_context(passed)
       IN  IF filtered_chunks = <<>>
           THEN UNCHANGED <<context_chunks, rendered, sources, chunks_used>>
           ELSE /\ context_chunks' = passed
                /\ rendered' = built.context
                /\ sources' = built.sources
                /\ chunks_used' = Len(passed)
    /\ UNCHANGED similar_chunks
    /\ RetFrame

FallbackNext ==
    \/ \E store_ok \in BOOLEAN : DirectVectorSearch(store_ok)
    \/ FilterFallback

(***************************************************************************)
(* Specifications                                                          *)
(***************************************************************************)
Init ==
    TQInit /\ RLInit /\ DocInit /\ RetInit /\ QInit /\ MemInit /\ IngInit /\ EmbInit /\ FbInit /\ ChInit

\* u1 has four active documents, one short of the file limit; u2 has none
\* (the chunk rows of those four documents are left out)
InitIngest ==
    /\ TQInit /\ RLInit /\ RetInit /\ QInit /\ MemInit /\ IngInit /\ EmbInit /\ FbInit /\ ChInit
    /\ documents = [n \in 1..(MaxFiles - 1) |->
                       [id |-> n, user_id |-> "u1",
                        file_name |-> <<"b.txt", "c.txt", "d.txt", "e.txt">>[n],
                        version |-> 1,
                        is_active |-> TRUE]]
    /\ dpc = [c \in Clients |-> "idle"]
    /\ dlocal = [c \in Clients |-> NoLocal]
    /\ doc_calls = 0

SpecIngest == InitIngest /\ [][IngestNext]_vars

SpecMemory == Init /\ [][MemoryNext]_vars

SpecEmbed == Init /\ [][EmbedNext]_vars

\* The table holds any rows of the user's documents when the fallback runs
InitFallback ==
    /\ TQInit /\ RLInit /\ DocInit /\ RetInit /\ QInit /\ MemInit /\ IngInit
    /\ EmbInit /\ ChInit
    /\ fb_rows \in {TableRows(docs) : docs \in RowDocs(MaxRows)}

SpecFallback == InitFallback /\ [][FallbackNext]_vars

\* chunk_text is given any text, with or without a source name
InitChunk ==
    /\ TQInit /\ RLInit /\ DocInit /\ RetInit /\ QInit /\ MemInit /\ IngInit
    /\ EmbInit /\ FbInit
    /\ ch_text \in [text : TextsOf(MaxParagraphs),
                    metadata : [source : Sources]]
    /\ ch_chunks = <<>>
    /\ ch_pc = "call"

SpecChunk == InitChunk /\ [][ChunkNext]_vars

\* The store as a query finds it: user u1 has uploaded a document and has a
\* stored counter absent, below, at or above the ceiling; u2 is new
InitQuery ==
    /\ TQInit /\ RLInit /\ RetInit /\ MemInit /\ IngInit /\ EmbInit /\ FbInit /\ ChInit
    /\ documents = <<StoredDocument("u1", 1)>>
    /\ dpc = [c \in Clients |-> "idle"]
    /\ dlocal = [c \in Clients |-> NoLocal]
    /\ doc_calls = 0
    /\ q = [s \in Slots |-> IdleSlot]
    /\ \E count \in StoredCounts :
           user_settings = [u \in Users |->
                               IF u = "u1" THEN count ELSE NoSettings]
    /\ groq_rate_limits = [last_request_time |-> 0 - Secs(86400),
                           request_times |-> <<>>]
    /\ conversation_context = [u \in Users |-> <<>>]
    /\ chat_history = <<>>
    /\ llm_call_times = <<>>
    /\ q_arrivals = 0
    /\ trial_passed = [u \in Users |-> 0]

\* Both users have uploaded a document and have no settings row yet
InitGroq ==
    /\ TQInit /\ RLInit /\ RetInit /\ QInit /\ MemInit /\ IngInit /\ EmbInit /\ FbInit /\ ChInit
    /\ documents = <<StoredDocument("u1", 1), StoredDocument("u2", 2)>>
    /\ dpc = [c \in Clients |-> "idle"]
    /\ dlocal = [c \in Clients |-> NoLocal]
    /\ doc_calls = 0

SpecQuery == InitQuery /\ [][QueryNext]_vars

SpecGroq == InitGroq /\ [][GroqNext]_vars

SpecRetry == InitGroq /\ [][RetryNext]_vars

\* Every call handed to the executor comes back, every sleep ends, time
\* passes, and a request that can start or be answered is
FairSpecRetry ==
    /\ SpecRetry
    /\ \A s \in Slots :
           /\ WF_vars(LLMResponds(s))
           /\ WF_vars(WakeBackoff(s))
           /\ WF_vars(WakeRateLimit(s))
           /\ WF_vars(EmbeddingReturns(s, RetryFound))
    /\ WF_vars(AdvanceToWake)

SpecFilter == Init /\ [][FilterNext]_vars

SpecContext == Init /\ [][ContextNext]_vars

SpecDoc == Init /\ [][DocNext]_vars

SpecDocSeq == Init /\ [][DocSeqNext]_vars

SpecRL == Init /\ [][RLNext]_vars

InitBusy ==
    /\ TQInit /\ BusyDay /\ DocInit /\ RetInit /\ QInit /\ MemInit /\ IngInit
    /\ EmbInit /\ FbInit /\ ChInit

SpecBusy == InitBusy /\ [][BusyNext]_vars

SpecTQ == Init /\ [][TQNext]_vars

\* Scheduling of the threads: a worker thread that can take a step
\* eventually takes it, every callable terminates, the submitting thread
\* finishes a call it began, and a join that can return does return.
\* Nothing obliges a caller to submit a task or to call shutdown.
FairSpecTQ ==
    /\ SpecTQ
    /\ \A w \in Workers : WF_vars(WorkerStep(w))
    /\ WF_vars(SubmitRecord)
    /\ WF_vars(ShutdownJoin)

(***************************************************************************)
(* C1: under every interleaving of submit_task with the workers, the      *)
(* recorded status of a task changes only from 'queued' to 'completed' or *)
(* 'failed', and a 'completed' or 'failed' status is never overwritten    *)
(* (in particular never set back to 'queued').                            *)
(***************************************************************************)
C1_StatusChangesOnce ==
    [][\A t \in TaskIds :
          (results[t] # "not_found" /\ results'[t] # results[t])
              => (results[t] = "queued" /\ results'[t] \in Terminal)]_vars

(***************************************************************************)
(* C2: once shutdown has set the stop signal and waits in join, it        *)
(* eventually returns, also when tasks were still waiting in the queue.   *)
(***************************************************************************)
C2_ShutdownReturns == (shpc = "join") ~> (shpc = "returned")

(***************************************************************************)
(* C3: for the classes 'query' and 'file_operations': once the class      *)
(* limit of requests of a user has been accepted, a further request of    *)
(* that class made less than the window length after the first of them is *)
(* rejected; a request made once the window length has elapsed since the  *)
(* accepted requests is accepted, other classes permitting.  Time is      *)
(* real-valued: the instants are ticks, not whole seconds.                *)
(***************************************************************************)
C3_WindowEnforced ==
    rl_last.user \in Users =>
        LET e == rl_last.endpoint
            acc == rl_last.before
            n == Len(acc)
            lim == limits[e][1]
            win == Secs(limits[e][2])
        IN  /\ (n >= lim /\ rl_last.time - acc[n - lim + 1] < win)
                => rl_last.limited
            /\ ((\A i \in 1..n : rl_last.time - acc[i] >= win)
                    /\ rl_last.others_permit)
                => ~rl_last.limited

(***************************************************************************)
(* C5: in every reachable state, under any interleaving of concurrent     *)
(* create_document and soft_delete_document calls, at most one document   *)
(* row of a (user_id, file_name) pair has is_active = true.               *)
(***************************************************************************)
C5_AtMostOneActive ==
    \A u \in Users, f \in FileNames :
        Cardinality(ActiveRows(documents, u, f)) <= 1

(***************************************************************************)
(* C6: when create_document calls follow one another, the call that       *)
(* completes leaves exactly one active row for its (user_id, file_name),  *)
(* the new one, whose version is the previous highest version plus 1 (1   *)
(* for a first upload); the earlier rows still exist with is_active =     *)
(* false; and no step of create_document or soft_delete_document removes  *)
(* a row or changes its identity.                                         *)
(***************************************************************************)
C6_VersioningSequential ==
    [][/\ Len(documents') >= Len(documents)
       /\ \A i \in 1..Len(documents) :
              /\ documents'[i].id = documents[i].id
              /\ documents'[i].user_id = documents[i].user_id
              /\ documents'[i].file_name = documents[i].file_name
              /\ documents'[i].version = documents[i].version
       /\ \A c \in Clients :
              (dpc[c] = "insert" /\ dpc'[c] = "idle") =>
                  LET u == dlocal[c].user_id
                      f == dlocal[c].file_name
                      n == Len(documents')
                  IN  /\ n = Len(documents) + 1
                      /\ ActiveRows(documents', u, f) = {n}
                      /\ documents'[n].version =
                             IF RowsOf(documents, u, f) = {} THEN 1
                             ELSE MaxVersion(documents, u, f) + 1
                      /\ \A i \in RowsOf(documents, u, f) :
                             ~documents'[i].is_active]_vars

\* Witness of C6: the same file was uploaded twice; version 1 is inactive
\* and version 2 is the active row
C6_Witness ==
    /\ AllIdle
    /\ \E i, j \in 1..Len(documents) :
           /\ documents[i].user_id = documents[j].user_id
           /\ documents[i].file_name = documents[j].file_name
           /\ documents[i].version = 1 /\ ~documents[i].is_active
           /\ documents[j].version = 2 /\ documents[j].is_active

(***************************************************************************)
(* C7: for chunks as stored by ingestion and returned by the search in    *)
(* any rank order, the sections of each document in the rendered context  *)
(* are in ascending chunk index.                                          *)
(***************************************************************************)
C7_ReadingOrder ==
    ret_pc = "done" =>
        \A g \in 1..Len(rendered) :
            \A i, j \in 1..Len(rendered[g].sections) :
                i < j => rendered[g].sections[i].chunk_index
                             < rendered[g].sections[j].chunk_index

(***************************************************************************)
(* C8: no chunk whose similarity is at or below the threshold, and no     *)
(* chunk without a similarity score, is passed to context assembly or     *)
(* counted in the result; at most 8 chunks are passed, and they are the   *)
(* first 8 survivors in retrieval order.                                  *)
(***************************************************************************)
C8_FilterAndCap ==
    ret_pc = "done" =>
        LET good == {k \in 1..Len(similar_chunks) :
                        /\ "similarity" \in DOMAIN similar_chunks[k]
                        /\ similar_chunks[k].similarity > SimilarityThreshold}
            rank(c) == CHOOSE k \in 1..Len(similar_chunks) : similar_chunks[k] = c
            first8 == {k \in good : Cardinality({h \in good : h < k}) < 8}
            in_context == UNION {Range(rendered[g].sections) : g \in 1..Len(rendered)}
        IN  /\ Len(context_chunks) <= 8
            /\ Range(context_chunks) = {similar_chunks[k] : k \in first8}
            /\ \A i, j \in 1..Len(context_chunks) :
                   i < j => rank(context_chunks[i]) < rank(context_chunks[j])
            /\ in_context = Range(context_chunks)
            /\ good # {} => chunks_used = Cardinality(first8)
            /\ good = {} => chunks_used = -1 /\ rendered = <<>>

\* Witness of C8: a search returned more than 8 chunks above the threshold
\* and a chunk at the threshold or without a score, ranked before the last
\* survivor; the query was processed and 8 chunks were passed
C8_Witness ==
    /\ ret_pc = "done"
    /\ chunks_used = 8
    /\ Len(context_chunks) = 8
    /\ \E k \in 1..Len(similar_chunks) :
           /\ k < Len(similar_chunks)
           /\ \/ "similarity" \notin DOMAIN similar_chunks[k]
              \/ similar_chunks[k].similarity = SimilarityThreshold
    /\ Cardinality({k \in 1..Len(similar_chunks) :
                       /\ "similarity" \in DOMAIN similar_chunks[k]
                       /\ similar_chunks[k].similarity > SimilarityThreshold}) > 8

(***************************************************************************)
(* C4: counting every attempt, retries included, the calls made to the    *)
(* answering service within any 60-second window number at most 30.       *)
(***************************************************************************)
C4_AnsweringCallsBounded ==
    \A i \in 1..Len(llm_call_times) :
        Cardinality({j \in 1..Len(llm_call_times) :
                        /\ llm_call_times[j] >= llm_call_times[i]
                        /\ llm_call_times[j] < llm_call_times[i] + Secs(60)})
            <= MaxRequestsPerMinute

(***************************************************************************)
(* C9: a query_documents call that reads a stored query_count of 20 or    *)
(* more ends with the trial-ended response, leaves the user's counter as  *)
(* it was, and makes no call other than the settings read: no document    *)
(* lookup, no embedding, no search, no answering-service call.            *)
(***************************************************************************)
C9_TrialEnded ==
    [][\A s \in Slots :
          (/\ q[s].pc # "done"
           /\ q'[s].pc = "done"
           /\ q'[s].count_read >= TrialLimit)
          => /\ q'[s].result = "trial_ended"
             /\ q'[s].calls = {"settings"}
             /\ q'[s].llm_calls = 0
             /\ user_settings'[q'[s].user] = q'[s].count_read
             /\ user_settings' = user_settings
             /\ llm_call_times' = llm_call_times
             /\ groq_rate_limits' = groq_rate_limits
             /\ conversation_context' = conversation_context
             /\ chat_history' = chat_history]_vars

\* a request found the counter at exactly 20 and got the trial-ended response
C9_Witness ==
    \E s \in Slots :
        /\ q[s].pc = "done"
        /\ q[s].count_read = TrialLimit
        /\ q[s].result = "trial_ended"
        /\ q[s].question = "valid"
        /\ get_active_documents(documents, q[s].user) # {}

(***************************************************************************)
(* C10: when the answering service returns an answer, query_documents     *)
(* returns it with success true and the user's stored query counter is    *)
(* one higher than before the call.                                       *)
(***************************************************************************)
C10_AnswerCounted ==
    [][\A s \in Slots :
          (/\ q[s].pc = "llm"
           /\ q'[s].pc = "done"
           /\ q'[s].answer = "answer")
          => /\ q'[s].result = "success"
             /\ user_settings'[q'[s].user] = q'[s].count_before + 1]_vars

C12_KindPreserved ==
    \A s \in Slots :
        (/\ q[s].pc = "done"
         /\ q[s].inner \in {"ValidationError", "ResourceNotFoundError"})
        => /\ q[s].result = q[s].inner
           /\ q[s].response.status_code = StatusCode(q[s].inner)
           /\ q[s].response.body = UserMessage(q[s].inner)

(***************************************************************************)
(* C13: when the answering service fails with rate-limit errors until the *)
(* retries are used up, or the query-side limiter rejects the request,    *)
(* the caller of query_documents gets a rate-limit failure, and gets an   *)
(* external-service failure for timeouts and other collaborator failures. *)
(***************************************************************************)
C13_RateLimitDistinct ==
    \A s \in Slots :
        q[s].pc = "done" =>
            /\ q[s].inner = "RateLimitError" => q[s].result = "RateLimitError"
            /\ (q[s].inner = "ExternalServiceError"
                    /\ q[s].error_message # WrappedMessage(AttributeErrorMessage))
                   => q[s].result = "ExternalServiceError"

C14_ThirdAttemptAnswers ==
    [][\A s \in Slots :
          /\ (/\ q[s].pc = "llm"
              /\ q[s].failures = <<"rate_limit", "rate_limit">>
              /\ q'[s].answer # "none")
             => /\ q'[s].llm_calls = max_retries + 1
                /\ q'[s].answer = "answer"
                /\ \A u \in Users \ {q[s].user} :
                       conversation_context'[u] = conversation_context[u]
                /\ LET before == conversation_context[q[s].user]
                       after == conversation_context'[q[s].user]
                       entry == [question |-> q[s].question,
                                 answer |-> q'[s].answer]
                   IN  \/ after = Append(before, entry)
                       \/ /\ Len(before) = MemorySize
                          /\ after = Append(Tail(before), entry)
          /\ (/\ q[s].pc \in {"llm", "backoff"}
              /\ q'[s].answer = "none")
             => conversation_context' = conversation_context]_vars

\* a request answered at its third call, after two rate-limit failures
C14_Witness ==
    \E s \in Slots :
        /\ q[s].pc = "done"
        /\ q[s].failures = <<"rate_limit", "rate_limit">>
        /\ q[s].answer = "answer"
        /\ q[s].llm_calls = max_retries + 1
        /\ Len(conversation_context[q[s].user]) = 1

(***************************************************************************)
(* C15: one query makes at most 3 answering-service calls whatever the    *)
(* mix of rate-limit and timeout failures; a failure of another kind ends *)
(* the loop at once, without a further call; and the loop always ends,    *)
(* with an answer or with a failure.                                      *)
(***************************************************************************)
C15_RetryBounded ==
    /\ [](\A s \in Slots :
             /\ q[s].llm_calls <= 3
             /\ Len(q[s].failures) <= q[s].llm_calls)
    /\ [][\A s \in Slots :
             (/\ q[s].pc = "llm"
              /\ q'[s].failures # q[s].failures
              /\ q'[s].failures[Len(q'[s].failures)] = "error")
             => /\ q'[s].pc = "done"
                /\ q'[s].llm_calls = q[s].llm_calls
                /\ llm_call_times' = llm_call_times]_vars
    /\ \A s \in Slots : (q[s].pc = "llm") ~> (q[s].pc = "done")

\* a loop that used all three calls on mixed failures, after an earlier
\* query whose loop ended at its first call
C15_Witness ==
    \E s \in Slots :
        /\ q[s].pc = "done"
        /\ q[s].failures = <<"timeout", "rate_limit", "timeout">>
        /\ q[s].llm_calls = max_retries + 1
        /\ Len(llm_call_times) = max_retries + 2

(***************************************************************************)
(* C16: after any sequence of memory updates and clears, each user's      *)
(* memory holds at most 5 entries, and they are that user's most recent   *)
(* exchanges since the user's last clear, oldest first, each answer cut   *)
(* to 500 characters; what one user does changes no other user's memory.  *)
(***************************************************************************)
C16_MemoryBounded ==
    \A u \in Users :
        LET mine == exchanges[u]
            kept == IF Len(mine) > 5 THEN 5 ELSE Len(mine)
        IN  /\ Len(conversation_context[u]) = kept
            /\ \A i \in 1..kept :
                   conversation_context[u][i] =
                       [question |-> mine[Len(mine) - kept + i].question,
                        answer |-> Truncate500(mine[Len(mine) - kept + i].answer)]

\* u1's oldest exchange has been evicted while u2 holds one of its own
C16_Witness ==
    /\ Len(exchanges["u1"]) = 6
    /\ Len(conversation_context["u1"]) = 5
    /\ conversation_context["u1"][1].question = exchanges["u1"][2].question
    /\ Len(conversation_context["u2"]) = 1
    /\ \E i \in 1..5 : conversation_context["u1"][i].answer = "long_answer[:500]"

C19_ExecutableDisguise ==
    (/\ ing.pc = "done"
     /\ ing.mode = "sync"
     /\ ing.outcome # "HTTP429"
     /\ ing.file.ext = ".pdf"
     /\ ing.file.header = "MZ"
     /\ ing.file.size = "ok"
     /\ ing.file.mime # "detector_raises"
     /\ ing.file.signature_read = "ok")
    => /\ ing.outcome = "rejected"
       /\ ing.safety.reason =
              "File appears to be an executable disguised as a document"
       /\ ing.calls \cap {"upload", "extract", "create_document"} = {}

(***************************************************************************)
(* C20: a file on which a check of validate_file_safety could not be      *)
(* completed (the MIME detector, the signature read, the deep check of    *)
(* its type or the PDF JavaScript scan raised) is never accepted.         *)
(***************************************************************************)
C20_FailedCheckRejects ==
    (/\ ing.mode = "sync"
     /\ ing.temps # {}
     /\ \/ ing.file.mime = "detector_raises"
        \/ ing.file.signature_read = "raises"
        \/ ing.file.deep \in {"raises", "js_scan_raises"})
    => ~ing.safety.accepted

(***************************************************************************)
(* C22: a query whose question could not be embedded (the model failed to *)
(* load or to encode) ends with an external-service failure, having made  *)
(* no similarity search and no call of the answering service.             *)
(***************************************************************************)
C22_EmbeddingFailureStops ==
    \A s \in Slots :
        q[s].embedding = "placeholder"
        => /\ "search" \notin q[s].calls
           /\ q[s].llm_calls = 0
           /\ q[s].pc = "done" => q[s].inner = "ExternalServiceError"

(***************************************************************************)
(* C21: however many get_embeddings_batch calls run _ensure_model_loaded  *)
(* on pool threads at once, the encoding model is constructed at most     *)
(* once.                                                                   *)
(***************************************************************************)
C21_ModelLoadedOnce == emb.constructed <= 1

(***************************************************************************)
(* C23: the list get_embeddings_batch returns has one vector per input    *)
(* text, every vector has 384 components, and the i-th vector is the one  *)
(* produced for the i-th text: its encoding (of the first 500 words) when *)
(* the encoding succeeded, the placeholder when the load or the encoding  *)
(* failed.                                                                 *)
(***************************************************************************)
C23_OneVectorPerText ==
    \A c \in Callers :
        callers[c].pc = "done"
        => /\ Len(callers[c].result) = Len(callers[c].texts)
           /\ \A i \in 1..Len(callers[c].result) :
                  /\ callers[c].result[i].dim = 384
                  /\ callers[c].path = "encoded"
                         => callers[c].result[i]
                                = Encoded(processed_text(callers[c].texts[i]))
                  /\ callers[c].path \in {"load_failed", "encode_failed"}
                         => callers[c].result[i] = Placeholder

\* a list of two different texts was encoded, in order, while the other
\* caller's list met an encoding failure
C23_Witness ==
    \E c, d \in Callers :
        /\ callers[c].pc = "done"
        /\ callers[c].path = "encoded"
        /\ Len(callers[c].texts) = MaxBatch
        /\ callers[c].texts[1] # callers[c].texts[2]
        /\ callers[d].pc = "done"
        /\ callers[d].path = "encode_failed"
        /\ Len(callers[d].texts) = MaxBatch

(***************************************************************************)
(* C24: every score the fallback search synthesizes is below the filter   *)
(* threshold of the query path: no chunk the fallback returns passes the  *)
(* filter.                                                                 *)
(***************************************************************************)
C24_FallbackBelowThreshold ==
    /\ \A k \in 1..Len(similar_chunks) :
           similar_chunks[k].similarity < SimilarityThreshold
    /\ ret_pc = "done" => context_chunks = <<>>

(***************************************************************************)
(* C25: whatever the text, every chunk chunk_text returns has at most     *)
(* chunk_size + chunk_overlap characters, for the size tier chunk_text    *)
(* selected for that text.                                                 *)
(***************************************************************************)
C25_ChunkLengthBounded ==
    ch_pc = "done"
    => LET tier == SizeTier(StrLen(clean_and_structure_text(
                                       ch_text.text, ch_text.metadata.source)))
       IN  \A k \in 1..Len(ch_chunks) :
               StrLen(ch_chunks[k].text) <= tier.chunk_size + tier.chunk_overlap

(***************************************************************************)
(* C26: the ingestion of a plain-text file of 40 characters passes the    *)
(* safety check and its text is extracted; chunking then yields exactly   *)
(* one chunk, whose text is the text of the file.                         *)
(***************************************************************************)
C26_SmallFileOneChunk ==
    (/\ ing.mode = "sync"
     /\ ing.file = [ext |-> ".txt", size |-> "ok", header |-> "text",
                    mime |-> "text/plain", signature_read |-> "ok",
                    deep |-> "safe"]
     /\ StrLen(FileText(ing.file)) = 40
     /\ ing.pc \in {"embed", "insert"})
    => /\ ing.safety.accepted
       /\ ing.text = FileText(ing.file)
       /\ Len(ing.chunks) = 1
       /\ ing.chunks[1].text = ing.text

(***************************************************************************)
(* C27: at every moment get_task_status answers 'not_found' for an id     *)
(* that no submit_task call has returned, and 'queued', 'completed' or    *)
(* 'failed' for an id that a submit_task call has returned.               *)
(***************************************************************************)
C27_StatusObservable ==
    \A t \in TaskIds :
        IF t <= submitted /\ t # stask
        THEN get_task_status(t) \in {"queued", "completed", "failed"}
        ELSE get_task_status(t) = "not_found"

(***************************************************************************)
(* C28, as stated: tasks begin executing in submission order. When a      *)
(* worker calls the function of task B, the function of every task        *)
(* submitted before B has already been called.                            *)
(***************************************************************************)
C28_StartInSubmissionOrder ==
    \A i \in 1..Len(started) :
        \A a \in TaskIds :
            a < started[i] => \E j \in 1..(i - 1) : started[j] = a

(***************************************************************************)
(* C28, amended: tasks are taken from the queue in submission order. When *)
(* a worker calls the function of task B, every task submitted before B   *)
(* has left the queue: its function has been called, or a worker holds it *)
(* and is about to call it.                                               *)
(***************************************************************************)
C28_TakenInSubmissionOrder ==
    \A i \in 1..Len(started) :
        \A a \in TaskIds :
            a < started[i]
            => /\ a \notin Range(task_queue)
               /\ \/ a \in Range(started)
                  \/ \E w \in Workers : wtask[w] = a /\ wpc[w] = "call"

\* the second task has begun while a worker holds the first and has not
\* called it yet
C28_Witness ==
    /\ 2 \in Range(started)
    /\ 1 \notin Range(started)
    /\ \E w \in Workers : wtask[w] = 1 /\ wpc[w] = "call"

(***************************************************************************)
(* C29: when shutdown returns, every task whose submit_task call had      *)
(* returned before shutdown was called has been executed and its recorded *)
(* status is 'completed' or 'failed'.                                     *)
(***************************************************************************)
C29_ShutdownDrains ==
    shpc = "returned"
    => \A t \in sh_before :
           /\ t \in Range(started)
           /\ get_task_status(t) \in Terminal

(***************************************************************************)
(* C30: a request that is_rate_limited rejects, by its class limit, the   *)
(* daily total or the global answering-service limit, leaves every        *)
(* window with the count it had before the call; a request it accepts is  *)
(* counted once in the user's class window and total window and, for a    *)
(* query, in the global window, and nowhere else. This holds of the last  *)
(* call made and of any call that can be made next.                       *)
(***************************************************************************)
C30_RejectedNotRecorded ==
    LET Recorded(u, e, limited, before, after) ==
            IF limited THEN after = before
            ELSE after =
                   [users |-> [before.users EXCEPT
                                  ![u] = [k \in WindowKeys |->
                                             IF k \in {e, "total"}
                                             THEN before.users[u][k] + 1
                                             ELSE before.users[u][k]]],
                    groq_global |-> IF e = "query"
                                    THEN before.groq_global + 1
                                    ELSE before.groq_global]
    IN  /\ rl_last.user \in Users
               => Recorded(rl_last.user, rl_last.endpoint, rl_last.limited,
                           rl_last.counts_before, rl_last.counts_after)
        /\ \A u \in Users, e \in EndpointTypes :
               LET r == is_rate_limited(user_requests, groq_requests, u, e, now)
               IN  Recorded(u, e, r.limited,
                       WindowCounts(user_requests, groq_requests, now),
                       WindowCounts(r.user_requests, r.groq_requests, now))

\* the last call, a question of u2, was rejected by the global limit,
\* which the questions of both users had filled, u1 being at its daily
\* total
C30_Witness ==
    /\ rl_last.user = "u2"
    /\ rl_last.limited
    /\ rl_last.message = "groq_global"
    /\ rl_last.counts_before.groq_global = GroqGlobalLimit
    /\ rl_last.counts_before.users["u1"]["total"] = TotalLimit
    /\ rl_last.counts_after = rl_last.counts_before

(***************************************************************************)
(* services/task_queue.py : the queue while nobody calls shutdown         *)
(***************************************************************************)
\* submit_task calls and the worker threads, and no shutdown call
TQRunNext ==
    \/ SubmitPut
    \/ SubmitRecord
    \/ \E w \in Workers : WorkerStep(w)

\* Scheduling of the threads while the queue runs: a worker thread that can
\* take a step eventually takes it, every callable returns or raises, and
\* the submitting thread finishes a call it began
FairSpecTQRun ==
    /\ Init
    /\ [][TQRunNext]_vars
    /\ \A w \in Workers : WF_vars(WorkerStep(w))
    /\ WF_vars(SubmitRecord)

(***************************************************************************)
(* C34: with fair worker threads and no shutdown, every task whose        *)
(* submit_task call has returned its id is eventually reported by         *)
(* get_task_status as completed or failed (its callable returning or      *)
(* raising), under every interleaving of the submitting thread with the   *)
(* workers.                                                               *)
(***************************************************************************)
C34_EveryTaskFinishes ==
    \A t \in TaskIds :
        (t <= submitted /\ stask # t) ~> (get_task_status(t) \in Terminal)

(***************************************************************************)
(* C31: a query of a user who has no active document ends in the step it  *)
(* arrives in: no embedding, no similarity search and no answering-       *)
(* service call is made for it, and the answering-service limiter of the  *)
(* query service (groq_rate_limits) is left as it was.                    *)
(***************************************************************************)
C31_NoDocumentsStopsEarly ==
    [][\A s \in Slots :
          (/\ q[s].pc = "idle"
           /\ q'[s].pc # "idle"
           /\ get_active_documents(documents, q'[s].user) = {})
          => /\ q'[s].pc = "done"
             /\ q'[s].calls \cap {"embedding", "search", "llm"} = {}
             /\ q'[s].llm_calls = 0
             /\ llm_call_times' = llm_call_times
             /\ groq_rate_limits' = groq_rate_limits]_vars

\* a valid question of a user below the ceiling and without documents was
\* answered with the not-found error after the document lookup
C31_Witness ==
    \E s \in Slots :
        /\ q[s].pc = "done"
        /\ q[s].inner = "ResourceNotFoundError"
        /\ q[s].question = "valid"
        /\ q[s].calls = {"settings", "documents"}
        /\ get_active_documents(documents, q[s].user) = {}
        /\ groq_rate_limits.request_times = <<>>

(***************************************************************************)
(* C32: when no retrieved chunk passes the similarity filter, the query   *)
(* returns the no-relevant-information answer as a success, makes no      *)
(* answering-service call, adds nothing to the conversation memory, and   *)
(* the user's stored query counter is one higher than before.             *)
(***************************************************************************)
C32_NoInformationCounted ==
    [][\A s \in Slots :
          (/\ q[s].pc = "embedding"
           /\ q'[s].pc = "done"
           /\ q'[s].inner = "no_information")
          => /\ q'[s].result = "no_information"
             /\ q'[s].response = RouterAnswer("no_information")
             /\ q'[s].llm_calls = 0
             /\ llm_call_times' = llm_call_times
             /\ conversation_context' = conversation_context
             /\ user_settings'[q'[s].user] = q'[s].count_before + 1]_vars

(***************************************************************************)
(* C33: when saving the exchange to the chat history fails after the      *)
(* answering service returned an answer, _process_query still returns     *)
(* the success result with that answer and the sources of the chunks it   *)
(* used, and the conversation memory ends with the new exchange.          *)
(***************************************************************************)
C33_HistoryFailureTolerated ==
    [][\A s \in Slots :
          (/\ q[s].pc = "llm"
           /\ q'[s].pc = "done"
           /\ "history" \in q'[s].calls
           /\ chat_history' = chat_history)
          => LET memory == conversation_context'[q[s].user]
             IN  /\ q'[s].inner = "success"
                 /\ q'[s].answer = "answer"
                 /\ q'[s].source_files =
                        {q[s].chunks[i].metadata.source :
                            i \in 1..Len(q[s].chunks)}
                 /\ q'[s].source_files # {}
                 /\ memory # <<>>
                 /\ memory[Len(memory)] =
                        [question |-> q[s].question, answer |-> "answer"]
                 /\ Len(memory) =
                        IF Len(conversation_context[q[s].user]) < MemorySize
                        THEN Len(conversation_context[q[s].user]) + 1
                        ELSE MemorySize]_vars

\* an answer was generated and remembered while the chat_history table got
\* no row
C33_Witness ==
    \E s \in Slots :
        /\ q[s].pc = "done"
        /\ q[s].inner = "success"
        /\ q[s].answer = "answer"
        /\ "history" \in q[s].calls
        /\ chat_history = <<>>
        /\ conversation_context[q[s].user] # <<>>
        /\ q[s].source_files # {}

(***************************************************************************)
(* C35: the trial quota, the input validation and the presence of a       *)
(* knowledge base are evaluated before any rate limiting: a query request *)
(* that ends in the trial-ended, validation-failure or not-found branch   *)
(* has consumed no slot in any rate-limit window, neither the per-user    *)
(* query window, nor the per-user total window, nor a global one.         *)
(***************************************************************************)
C35_EarlyExitsUnrecorded ==
    [][\A s \in Slots :
          (/\ q[s].pc = "idle"
           /\ q'[s].pc = "done"
           /\ \/ q'[s].result = "trial_ended"
              \/ q'[s].inner \in {"ValidationError", "ResourceNotFoundError"})
          => /\ WindowCounts(user_requests', groq_requests', now)
                    = WindowCounts(user_requests, groq_requests, now)
             /\ groq_rate_limits' = groq_rate_limits]_vars

(***************************************************************************)
(* services/query_service.py : the free trial of one user                 *)
(***************************************************************************)
\* A user who has uploaded a document and never asked before calls
\* query_documents with answerable questions, one call after another; the
\* search finds nothing relevant or fails
TrialNext ==
    \/ \E s \in Slots :
           /\ q_arrivals < MaxTrialQueries
           /\ NoneInProgress
           /\ Arrive(s, "u1", "valid", TRUE)
    \/ \E s \in Slots : WakeRateLimit(s)
    \/ \E s \in Slots : EmbeddingReturns(s, <<>>)
    \/ \E s \in Slots : SearchFails(s)
    \/ \E s \in Slots : Deliver(s)
    \/ AdvanceToWake

SpecTrial == InitGroq /\ [][TrialNext]_vars

(***************************************************************************)
(* C38: however the query_documents calls of one user interleave, the     *)
(* user's stored query counter never exceeds 20 and no more than 20       *)
(* queries of that user get past the trial-quota check.                   *)
(***************************************************************************)
C38_TrialQuotaHolds ==
    \A u \in Users :
        /\ QueryCount(user_settings, u) <= TrialLimit
        /\ trial_passed[u] <= TrialLimit

(***************************************************************************)
(* services/fast_ingest_service.py : one _process_chunks_optimized call   *)
(***************************************************************************)
\* The numbers of chunks of a document: none, one, and a full batch or one
\* chunk more than full batches
ChunkCounts ==
    {0, 1} \cup {k * batch_size + d : k \in 1..(MaxBatches - 1), d \in {0, 1}}

\* n chunks as chunk_text returns them
ChunksOf(n) ==
    [i \in 1..n |-> [text |-> <<"chunk", i>>, metadata |-> [source |-> "a.txt"]]]

\* _process_chunks_optimized(document_id, user_id, chunks) as
\* _ingest_file_sync_internal calls it on a queue worker for the document
\* it has just created
ChunkCall(n) ==
    [IngestIdle EXCEPT !.mode = "background", !.id = 1, !.user = "u1",
                       !.file = [ext |-> ".txt"],
                       !.temps = {<<1, "processing_copy">>},
                       !.calls = {"upload", "extract", "create_document"},
                       !.chunks = ChunksOf(n), !.document_id = 1]

InitBatches ==
    /\ TQInit /\ RLInit /\ RetInit /\ QInit /\ MemInit /\ EmbInit /\ FbInit
    /\ ChInit
    /\ documents = <<StoredDocument("u1", 1)>>
    /\ dpc = [c \in Clients |-> "idle"]
    /\ dlocal = [c \in Clients |-> NoLocal]
    /\ doc_calls = 0
    /\ \E n \in ChunkCounts :
           /\ ing = StartChunkProcessing(ChunkCall(n))
           /\ disk = IF n = 0 THEN {} ELSE {ProcessingCopy(ChunkCall(n))}
    /\ ing_arrivals = 1
    /\ document_chunks = <<>>

\* The batches of the call, with any outcome of the embedding service and
\* of the store
BatchNext ==
    \/ \E kind \in {"encoded", "placeholder", "short"} : IngestEmbedReturns(kind)
    \/ \E ok \in BOOLEAN : IngestInsertReturns(ok)
    \/ IngestBatchPause

SpecBatches == InitBatches /\ [][BatchNext]_vars

(***************************************************************************)
(* C36: the insertion batches of a document are issued one at a time, in  *)
(* order: a batch is embedded and inserted only after the insertion of    *)
(* the batch before it has returned. The j-th chunk in reading order is   *)
(* written with chunk_index j, no index is written twice, and when the    *)
(* n chunks have been processed the indices written are exactly 0..n-1.   *)
(***************************************************************************)
C36_BatchesInOrder ==
    LET n == Len(ing.chunks)
        rows == document_chunks
    IN  /\ \A e \in 1..Len(ing.events) :
               /\ ing.events[e][2] = ((e - 1) \div 2) * batch_size
               /\ ing.events[e][1] \in
                      (IF e % 2 = 1 THEN {"embed"}
                       ELSE {"inserted", "insert_failed"})
               /\ (e > 1 /\ e % 2 = 1) => ing.events[e - 1][1] = "inserted"
        /\ \A k \in 1..Len(rows) :
               /\ rows[k].chunk_index \in 0..(n - 1)
               /\ rows[k].chunk_text = ing.chunks[rows[k].chunk_index + 1].text
               /\ rows[k].document_id = ing.document_id
               /\ k > 1 => rows[k - 1].chunk_index < rows[k].chunk_index
        /\ (ing.pc = "done" /\ ing.outcome = "success")
               => /\ Len(rows) = n
                  /\ \A k \in 1..n : rows[k].chunk_index = k - 1

\* a document of more than two full batches has been stored
C36_Witness ==
    /\ ing.pc = "done"
    /\ ing.outcome = "success"
    /\ Len(ing.chunks) = 2 * batch_size + 1
    /\ Len(document_chunks) = Len(ing.chunks)
    /\ Len(ing.events) = 6

(***************************************************************************)
(* C37: ingestion reports success with chunks_processed = n only when all *)
(* n chunk records of the document were inserted: when an insertion batch *)
(* fails after the store client's retries, or the embedding service       *)
(* returns fewer vectors than chunks, the ingestion ends with a failure.  *)
(***************************************************************************)
C37_SuccessMeansAllInserted ==
    ing.pc = "done" =>
        LET n == Len(ing.chunks)
            stored == {k \in 1..Len(document_chunks) :
                          document_chunks[k].document_id = ing.document_id}
            failed == \E e \in 1..Len(ing.events) :
                          ing.events[e][1] = "insert_failed"
        IN  /\ ing.outcome = "success" => Cardinality(stored) = n /\ ~failed
            /\ (failed \/ Cardinality(stored) < n)
                   => ing.outcome = "ExternalServiceError"

\* the embedding service returned one vector too few for the second batch,
\* every insertion succeeded, and the ingestion failed
C37_Witness ==
    /\ ing.pc = "done"
    /\ ing.outcome = "ExternalServiceError"
    /\ \A e \in 1..Len(ing.events) : ing.events[e][1] # "insert_failed"
    /\ Len(ing.chunks) = 2 * batch_size
    /\ Len(ing.events) = 4
    /\ Len(document_chunks) = Len(ing.chunks) - 1
    /\ document_chunks[batch_size].chunk_index = batch_size - 1

(***************************************************************************)
(* C39: when the ingestion of a file fails after its document record was  *)
(* created (in chunking, embedding or chunk insertion), what the user can *)
(* search is as before: the rows that were active are still active, and   *)
(* the document of the failed ingestion is not active with none or only   *)
(* part of its chunks stored.                                             *)
(***************************************************************************)
C39_FailureLeavesSearchable ==
    (/\ ing.pc = "done"
     /\ ing.document_id # 0
     /\ ing.outcome # "success")
    => /\ \A i \in get_active_documents(ing.docs_before, ing.user) :
              documents[i].is_active
       /\ documents[ing.document_id].is_active
              => /\ ing.chunks # <<>>
                 /\ Cardinality({k \in 1..Len(document_chunks) :
                        document_chunks[k].document_id = ing.document_id})
                        = Len(ing.chunks)

(***************************************************************************)
(* C40: after any sequence of ingest_file, ingest_file_background and     *)
(* delete_file calls of a user, the number of that user's active          *)
(* documents is at most the user's max_files setting (default 5).         *)
(***************************************************************************)
C40_ActiveDocumentsBounded ==
    \A u \in Users :
        Cardinality(get_active_documents(documents, u)) <= MaxFiles

====
